---------------------------- MODULE Spec2Model ----------------------------
(***************************************************************************)
(* Model of the Zammad MCP server (src/mcp_zammad).                        *)
(*                                                                         *)
(* Part 1: the response truncator of server.py (truncate_response and its  *)
(* helpers).  Strings are TLA+ strings, one character per Python code      *)
(* point; JSON text is produced and read character by character, the way   *)
(* json.dumps and json.loads do it for the value shapes modelled here      *)
(* (integers, strings without escapes, booleans, null, lists, objects).    *)
(***************************************************************************)
EXTENDS Integers, Sequences, FiniteSets, TLC

(***************************************************************************)
(* JSON values.  A Python dict keeps insertion order, so an object is a    *)
(* sequence of <<key, value>> pairs with no key repeated.                  *)
(***************************************************************************)
JInt(n)  == [t |-> "int", i |-> n]
JStr(s)  == [t |-> "str", s |-> s]
JBool(b) == [t |-> "bool", b |-> b]
JNull    == [t |-> "null"]
JList(l) == [t |-> "list", l |-> l]
JObj(o)  == [t |-> "obj", o |-> o]

IsList(v) == v.t = "list"
IsObj(v)  == v.t = "obj"

\* dict: key in d
HasKey(d, k) == \E n \in 1..Len(d.o) : d.o[n][1] = k

\* dict: d[k]   (only used when the key is present)
Get(d, k) == d.o[CHOOSE n \in 1..Len(d.o) : d.o[n][1] = k][2]

\* dict: d[k] = v   (an existing key keeps its place, a new key goes last)
Put(d, k, v) ==
  IF HasKey(d, k)
  THEN JObj([n \in 1..Len(d.o) |-> IF d.o[n][1] = k THEN <<k, v>> ELSE d.o[n]])
  ELSE JObj(Append(d.o, <<k, v>>))

\* list slice l[:k]
Prefix(l, k) == SubSeq(l, 1, k)

(***************************************************************************)
(* json.dumps                                                              *)
(***************************************************************************)
DigitChar(d) ==
  CASE d = 0 -> "0" [] d = 1 -> "1" [] d = 2 -> "2" [] d = 3 -> "3"
    [] d = 4 -> "4" [] d = 5 -> "5" [] d = 6 -> "6" [] d = 7 -> "7"
    [] d = 8 -> "8" [] d = 9 -> "9"

RECURSIVE NatStr(_)
NatStr(n) == IF n < 10 THEN DigitChar(n) ELSE NatStr(n \div 10) \o DigitChar(n % 10)

\* str(int)
IntStr(n) == IF n < 0 THEN "-" \o NatStr(-n) ELSE NatStr(n)

RECURSIVE Spaces(_)
Spaces(n) == IF n <= 0 THEN "" ELSE " " \o Spaces(n - 1)

\* The three layouts json.dumps is used with here:
\*   "compact": separators=(",", ":")        (server.py line 127)
\*   "pretty" : indent=2                     (server.py lines 128, 306)
\*   "spaced" : no arguments, ", " and ": "  (a caller's own json.dumps)
ItemSep(style, lvl) ==
  CASE style = "compact" -> ","
    [] style = "spaced"  -> ", "
    [] style = "pretty"  -> ",\n" \o Spaces(2 * lvl)

KeySep(style) == IF style = "compact" THEN ":" ELSE ": "

Open(style, lvl)  == IF style = "pretty" THEN "\n" \o Spaces(2 * lvl) ELSE ""
Close(style, lvl) == IF style = "pretty" THEN "\n" \o Spaces(2 * lvl) ELSE ""

Quote(s) == "\"" \o s \o "\""

RECURSIVE Dumps(_, _, _), DumpsList(_, _, _, _), DumpsObj(_, _, _, _)
Dumps(v, style, lvl) ==
  CASE v.t = "int"  -> IntStr(v.i)
    [] v.t = "str"  -> Quote(v.s)
    [] v.t = "bool" -> (IF v.b THEN "true" ELSE "false")
    [] v.t = "null" -> "null"
    [] v.t = "list" ->
         IF Len(v.l) = 0 THEN "[]"
         ELSE "[" \o Open(style, lvl + 1) \o DumpsList(v.l, 1, style, lvl + 1)
                  \o Close(style, lvl) \o "]"
    [] v.t = "obj"  ->
         IF Len(v.o) = 0 THEN "{}"
         ELSE "{" \o Open(style, lvl + 1) \o DumpsObj(v.o, 1, style, lvl + 1)
                  \o Close(style, lvl) \o "}"

DumpsList(l, n, style, lvl) ==
  Dumps(l[n], style, lvl)
    \o (IF n = Len(l) THEN "" ELSE ItemSep(style, lvl) \o DumpsList(l, n + 1, style, lvl))

DumpsObj(o, n, style, lvl) ==
  Quote(o[n][1]) \o KeySep(style) \o Dumps(o[n][2], style, lvl)
    \o (IF n = Len(o) THEN "" ELSE ItemSep(style, lvl) \o DumpsObj(o, n + 1, style, lvl))

(***************************************************************************)
(* json.loads: a recursive-descent reader.  Every reader takes the text    *)
(* and a position and returns [ok, pos, val]: whether a value was read,    *)
(* the position after it, and the value.                                   *)
(***************************************************************************)
Ch(s, i) == IF i >= 1 /\ i <= Len(s) THEN SubSeq(s, i, i) ELSE ""

Fail == [ok |-> FALSE]
Read(p, v) == [ok |-> TRUE, pos |-> p, val |-> v]

IsJsonWs(c) == c \in {" ", "\n", "\t", "\r"}
IsDigit(c) == c \in {"0", "1", "2", "3", "4", "5", "6", "7", "8", "9"}

DigitVal(c) ==
  CASE c = "0" -> 0 [] c = "1" -> 1 [] c = "2" -> 2 [] c = "3" -> 3
    [] c = "4" -> 4 [] c = "5" -> 5 [] c = "6" -> 6 [] c = "7" -> 7
    [] c = "8" -> 8 [] c = "9" -> 9

RECURSIVE SkipWs(_, _)
SkipWs(s, i) == IF IsJsonWs(Ch(s, i)) THEN SkipWs(s, i + 1) ELSE i

\* position of the quote that closes a string whose text starts at i, or 0:
\* a raw control character or a backslash escape is outside the modelled
\* alphabet and is refused
RECURSIVE StrEnd(_, _)
StrEnd(s, i) ==
  LET c == Ch(s, i) IN
  IF c = "\"" THEN i
  ELSE IF c \in {"", "\n", "\t", "\r", "\\"} THEN 0
  ELSE StrEnd(s, i + 1)

ReadString(s, i) ==
  IF Ch(s, i) # "\"" THEN Fail
  ELSE LET e == StrEnd(s, i + 1) IN
       IF e = 0 THEN Fail ELSE Read(e + 1, SubSeq(s, i + 1, e - 1))

RECURSIVE DigitsEnd(_, _)
DigitsEnd(s, i) == IF IsDigit(Ch(s, i)) THEN DigitsEnd(s, i + 1) ELSE i

RECURSIVE DigitsVal(_, _, _, _)
DigitsVal(s, i, e, acc) ==
  IF i >= e THEN acc ELSE DigitsVal(s, i + 1, e, 10 * acc + DigitVal(Ch(s, i)))

\* an integer: -? (0 | [1-9][0-9]*); fractions and exponents are outside
\* the modelled alphabet
ReadInt(s, i) ==
  LET neg == Ch(s, i) = "-"
      b   == IF neg THEN i + 1 ELSE i
      e   == DigitsEnd(s, b)
  IN IF e = b \/ (e > b + 1 /\ Ch(s, b) = "0") \/ Ch(s, e) \in {".", "e", "E"}
     THEN Fail
     ELSE Read(e, JInt(IF neg THEN -DigitsVal(s, b, e, 0) ELSE DigitsVal(s, b, e, 0)))

ReadWord(s, i, w, v) ==
  IF i + Len(w) - 1 <= Len(s) /\ SubSeq(s, i, i + Len(w) - 1) = w
  THEN Read(i + Len(w), v) ELSE Fail

RECURSIVE ReadValue(_, _), ReadItems(_, _, _), ReadMembers(_, _, _)
ReadValue(s, i) ==
  LET c == Ch(s, i) IN
  CASE c = "\"" -> LET r == ReadString(s, i) IN
                   IF r.ok THEN Read(r.pos, JStr(r.val)) ELSE Fail
    [] c = "t"  -> ReadWord(s, i, "true", JBool(TRUE))
    [] c = "f"  -> ReadWord(s, i, "false", JBool(FALSE))
    [] c = "n"  -> ReadWord(s, i, "null", JNull)
    [] c = "["  -> LET j == SkipWs(s, i + 1) IN
                   IF Ch(s, j) = "]" THEN Read(j + 1, JList(<<>>))
                   ELSE ReadItems(s, j, <<>>)
    [] c = "{"  -> LET j == SkipWs(s, i + 1) IN
                   IF Ch(s, j) = "}" THEN Read(j + 1, JObj(<<>>))
                   ELSE ReadMembers(s, j, JObj(<<>>))
    [] OTHER    -> ReadInt(s, i)

\* the items of a list, from the first character of an item
ReadItems(s, i, acc) ==
  LET r == ReadValue(s, i) IN
  IF ~r.ok THEN Fail
  ELSE LET j == SkipWs(s, r.pos)
           c == Ch(s, j)
       IN IF c = "]" THEN Read(j + 1, JList(Append(acc, r.val)))
          ELSE IF c = "," THEN ReadItems(s, SkipWs(s, j + 1), Append(acc, r.val))
          ELSE Fail

\* the members of an object, from the first character of a key; a repeated
\* key overwrites the earlier value, as a dict does
ReadMembers(s, i, acc) ==
  LET k == ReadString(s, i) IN
  IF ~k.ok THEN Fail
  ELSE LET j == SkipWs(s, k.pos) IN
       IF Ch(s, j) # ":" THEN Fail
       ELSE LET r == ReadValue(s, SkipWs(s, j + 1)) IN
            IF ~r.ok THEN Fail
            ELSE LET m == SkipWs(s, r.pos)
                     c == Ch(s, m)
                 IN IF c = "}" THEN Read(m + 1, Put(acc, k.val, r.val))
                    ELSE IF c = "," THEN ReadMembers(s, SkipWs(s, m + 1), Put(acc, k.val, r.val))
                    ELSE Fail

\* json.loads(s): the whole text is one value between optional whitespace;
\* Fail stands for JSONDecodeError
Loads(s) ==
  LET r == ReadValue(s, SkipWs(s, 1)) IN
  IF r.ok /\ SkipWs(s, r.pos) = Len(s) + 1 THEN r ELSE Fail

(***************************************************************************)
(* The truncator (server.py lines 116-238)                                 *)
(***************************************************************************)

\* _serialize_json(obj, use_compact)
_serialize_json(obj, use_compact) ==
  IF use_compact THEN Dumps(obj, "compact", 0) ELSE Dumps(obj, "pretty", 0)

\* use_compact = original_size > limit * 1.2.  limit * 1.2 is a double; for
\* 0 <= limit < 2^50 it is the exact product when that is an integer (the
\* error of 1.2 is under half an ulp of the product) and is otherwise at
\* least 0.19 away from every integer, so comparing the integer size with
\* it is the comparison 5 * original_size > 6 * limit.
UseCompact_ge(original_size, limit) == 5 * original_size >= 6 * limit

UseCompact(original_size, limit) == 5 * original_size > 6 * limit

\* "items" in obj and isinstance(obj["items"], list)
HasItemsList(obj) == HasKey(obj, "items") /\ IsList(Get(obj, "items"))

\* mutant: the slice taken from the end of the list
WithItems_suffix(obj, original_items, k) ==
  Put(obj, "items", JList(SubSeq(original_items, Len(original_items) - k + 1,
                                 Len(original_items))))

\* obj["items"] = original_items[:k]
WithItems(obj, original_items, k) == Put(obj, "items", JList(Prefix(original_items, k)))

\* mutant: the midpoint rounded down
Mid_floor(l, r) == (l + r) \div 2

\* mid = (left + right + 1) // 2
Mid(l, r) == (l + r + 1) \div 2

\* mutant: the probe serializes without passing use_compact on
Fits_pretty(obj, lim, use_compact) == Len(_serialize_json(obj, FALSE)) <= lim

\* len(_serialize_json(obj, use_compact)) <= limit
Fits(obj, lim, use_compact) == Len(_serialize_json(obj, use_compact)) <= lim

Note == "Response truncated; reduce page/per_page or add filters."

\* meta = obj.setdefault("_meta", {}) followed by meta.update({...}): the
\* update of a value that is not a dict raises AttributeError
MetaRaises(obj) == HasKey(obj, "_meta") /\ ~IsObj(Get(obj, "_meta"))

\* mutant: original_size and limit swapped
MetaUpdate_swapped(meta, original_size, lim) ==
  Put(Put(Put(Put(meta, "truncated", JBool(TRUE)),
                  "original_size", JInt(lim)),
              "limit", JInt(original_size)),
          "note", JStr(Note))

MetaUpdate(meta, original_size, lim) ==
  Put(Put(Put(Put(meta, "truncated", JBool(TRUE)),
                  "original_size", JInt(original_size)),
              "limit", JInt(lim)),
          "note", JStr(Note))

\* mutant: "_meta" replaced by the truncation metadata instead of updated
AttachMetadata_replace(obj, original_size, lim) ==
  Put(obj, "_meta", MetaUpdate(JObj(<<>>), original_size, lim))

AttachMetadata(obj, original_size, lim) ==
  LET meta == IF HasKey(obj, "_meta") THEN Get(obj, "_meta") ELSE JObj(<<>>)
  IN Put(obj, "_meta", MetaUpdate(meta, original_size, lim))

\* The warning block of _truncate_text_response.  Its first two characters
\* are U+26A0 U+FE0F in the source; "!!" stands for those two code points.
WarningBlock(size, lim) ==
  "\n\n!! **Response Truncated**\n"
    \o "Response size (" \o IntStr(size) \o " chars) exceeds limit (" \o IntStr(lim) \o " chars).\n"
    \o "Use pagination (page/per_page) or add filters to see more results."

Min(a, b) == IF a < b THEN a ELSE b

\* content[:limit] for limit >= 0
Slice(s, n) == SubSeq(s, 1, Min(n, Len(s)))

\* mutant: the warning is appended to the whole content
_truncate_text_response_noslice(c, lim) == c \o WarningBlock(Len(c), lim)

\* _truncate_text_response(content, limit)
_truncate_text_response(c, lim) == Slice(c, lim) \o WarningBlock(Len(c), lim)

\* content.lstrip(): Python strips these (and \v, and the Unicode spaces)
IsPyWs(c) == c \in {" ", "\n", "\t", "\r", "\f"}

RECURSIVE LStripPos(_, _)
LStripPos(s, i) == IF IsPyWs(Ch(s, i)) THEN LStripPos(s, i + 1) ELSE i

\* content.lstrip().startswith("{")
JsonShaped(s) == Ch(s, LStripPos(s, 1)) = "{"

(***************************************************************************)
(* The inputs of truncate_response: JSON documents in the layouts above,   *)
(* texts that are not JSON, JSON-shaped texts that do not parse, and       *)
(* limits on both sides of each document's length.                         *)
(***************************************************************************)
MaxItems == 3
LimitStep == 30
MaxLimitSteps == 10

Title(n) == "Ticket number " \o NatStr(n) \o " aaaaaaaaaaaa"

\* the n-th record of a list: a ticket-like record, a record with nested
\* (expanded) fields, or a bare number
Item(shape, n) ==
  CASE shape = "rec" \/ (shape = "mixed" /\ n % 2 = 1) ->
         JObj(<< <<"id", JInt(n)>>, <<"title", JStr(Title(n))>> >>)
    [] shape = "deep" ->
         JObj(<< <<"id", JInt(n)>>,
                 <<"state", JObj(<< <<"group", JObj(<< <<"org", JObj(<< <<"id", JInt(n)>> >>)>> >>)>> >>)>> >>)
    [] OTHER -> JInt(1000 + n)

ItemList(shape, len) == [n \in 1..len |-> Item(shape, n)]

ItemsVariants ==
  {<<>>, << <<"items", JInt(5)>> >>}
    \cup {<< <<"items", JList(ItemList(sh, len))>> >> :
            sh \in {"rec", "mixed", "deep"}, len \in 0..MaxItems}

\* the other keys of the envelope (_format_tickets_json), or none
EnvelopeVariants ==
  {<<>>, << <<"total", JNull>>, <<"page", JInt(1)>>, <<"has_more", JBool(FALSE)>> >>}

\* the value stored under "_meta": none, the formatter's {}, a dict that
\* already has keys, and values that are not dicts
MetaVariants ==
  {<<>>,
   << <<"_meta", JObj(<<>>)>> >>,
   << <<"_meta", JObj(<< <<"source", JStr("api")>>, <<"truncated", JBool(FALSE)>> >>)>> >>,
   << <<"_meta", JNull>> >>,
   << <<"_meta", JList(<<JInt(1)>>)>> >>}

JsonValues ==
  {JObj(i \o e \o m) : i \in ItemsVariants, e \in EnvelopeVariants, m \in MetaVariants}

JsonDocs ==
  {Dumps(v, st, 0) : v \in JsonValues \ {JObj(<<>>)}, st \in {"pretty", "compact"}}
    \cup {"  \n" \o Dumps(JObj(i \o << <<"_meta", JObj(<<>>)>> >>), "spaced", 0) \o "\n" :
            i \in ItemsVariants}

RECURSIVE Lines(_)
Lines(n) == IF n = 0 THEN "" ELSE "- **ID**: " \o NatStr(n) \o "\n" \o Lines(n - 1)

TextDocs ==
  {"", "[1, 2, 3]", "  plain"}
    \cup {"# Ticket Search Results\n\n" \o Lines(n) : n \in 0..MaxItems}

\* texts that start with "{" after lstrip() and are not JSON
BrokenDocs ==
  {"{\"items\": [1, 2", "{oops}", " {\"items\":[1],}", "\f{\"items\":[1,2,3]}",
   "{\"items\":[1000,1001]} trailing"}

Docs == JsonDocs \cup TextDocs \cup BrokenDocs

LimitsFor(c) ==
  {l \in {0, Len(c) - 1, Len(c), Len(c) + 1, (5 * Len(c)) \div 6, (5 * Len(c)) \div 6 - 1}
           \cup {LimitStep * k : k \in 1..MaxLimitSteps} : l >= 0}

(***************************************************************************)
(* State: one call of truncate_response at a time.                         *)
(***************************************************************************)
VARIABLES
  pc,             \* "idle", "search", "shrink", "done"
  content,        \* the argument content
  limit,          \* the argument limit
  obj,            \* the parsed object, as mutated so far
  original_size,  \* len(content)
  use_compact,
  original_items, \* the list first found under "items"
  left, right,    \* the interval of _find_max_items_for_limit
  max_items,      \* what _find_max_items_for_limit returned
  path,           \* which return statement produced result
  result,         \* the returned string
  reapplied       \* content is the result of the call before, same limit

tvars == <<pc, content, limit, obj, original_size, use_compact, original_items,
           left, right, max_items, path, result, reapplied>>

(***************************************************************************)
(* State of the other parts of the server; each part is described where    *)
(* its actions are defined.                                                *)
(***************************************************************************)
VARIABLES
  fmt_call,       \* the formatter call made last: its name and arguments
  fmt_result,     \* the string it returned
  client,         \* ZammadMCPServer.client
  _groups_cache,  \* the attributes the cached accessors create on the server
  _states_cache,
  _priorities_cache,
  _state_type_mapping,
  lifespan_pc,    \* where the lifespan context manager stands
  initialize_calls, \* how often initialize() was awaited
  queried,        \* per reference list: the backend was asked for it since
                  \* the caches were last cleared
  last,           \* the operation made last: its outcome, the number of
                  \* backend requests it made, and what it returned
  stats,          \* zammad_get_ticket_stats: the locals of the page scan
  env,            \* os.environ: MCP_TRANSPORT, MCP_HOST, MCP_PORT
  config,         \* the TransportConfig object, once there is one
  validated,      \* how often config.validate() was called, and how the
                  \* last call ended
  main_pc,        \* where main() of __main__.py stands
  run_calls,      \* the calls of mcp.run made, as their keyword arguments
  attachment,     \* zammad_download_attachment: the call made last and how
                  \* it ended
  walk            \* a caller paging through search results: what it asked
                  \* for and what it has received

fvars == <<fmt_call, fmt_result>>

cvars == <<_groups_cache, _states_cache, _priorities_cache, _state_type_mapping>>

svars == <<client, cvars, lifespan_pc, initialize_calls, queried, last>>

mvars == <<env, config, validated, main_pc, run_calls>>

xvars == <<attachment, walk>>

\* what the truncator leaves alone
otherVars == <<fvars, svars, stats, mvars, xvars>>

\* what the operations of the server object other than the statistics leave
\* alone
nonServer == <<tvars, fvars, stats, mvars, xvars>>

vars == <<tvars, otherVars>>

NoFormat == fmt_call = [fn |-> "none"] /\ fmt_result = ""

\* an attribute that was never set or was deleted, and one that holds v
Absent == [has |-> FALSE]
Present(v) == [has |-> TRUE, v |-> v]

\* hasattr(self, "...")
hasattr(attr) == attr.has

ReferenceLists == {"groups", "states", "priorities"}

NoOperation == [op |-> "none", outcome |-> "none", requests |-> 0, ret |-> <<>>]

\* ZammadMCPServer.__init__ (lines 506-513): no client, no cache attribute
ServerNew ==
  /\ client = "None"
  /\ _groups_cache = Absent /\ _states_cache = Absent /\ _priorities_cache = Absent
  /\ _state_type_mapping = Absent
  /\ lifespan_pc = "new"
  /\ initialize_calls = 0
  /\ queried = [k \in ReferenceLists |-> 0]
  /\ last = NoOperation
  /\ stats = [pc |-> "idle"]

NoCall ==
  /\ content = "" /\ limit = 0 /\ obj = JNull /\ original_size = 0
  /\ use_compact = FALSE /\ original_items = <<>> /\ left = 0 /\ right = 0
  /\ max_items = 0 /\ path = "none" /\ result = ""

\* no call of truncate_response is under way
TruncIdle == pc = "idle" /\ NoCall /\ reapplied = FALSE

\* a process that has not entered main(): an empty environment, no
\* TransportConfig, mcp.run never called
NoMain ==
  /\ env = [MCP_TRANSPORT |-> Absent, MCP_HOST |-> Absent, MCP_PORT |-> Absent]
  /\ config = Absent
  /\ validated = [n |-> 0, outcome |-> "none"]
  /\ main_pc = "idle"
  /\ run_calls = <<>>

\* no attachment was asked for, nobody pages through results
NoRequest == attachment = [pc |-> "idle"] /\ walk = [pc |-> "idle"]

Init == TruncIdle /\ NoFormat /\ ServerNew /\ NoMain /\ NoRequest

\* mutant: the guard of line 225 written with <
UnderLimit_strict(c, lim) == Len(c) < lim

\* len(content) <= limit (line 225)
UnderLimit(c, lim) == Len(c) <= lim

\* truncate_response lines 225-238 up to the call of _truncate_json_response,
\* and _truncate_json_response lines 165-171 up to the first loop test
Enter(c, lim) ==
  /\ content' = c
  /\ limit' = lim
  /\ IF UnderLimit(c, lim)
     THEN /\ result' = c
          /\ path' = "unchanged"
          /\ pc' = "done"
          /\ UNCHANGED <<obj, original_size, use_compact, original_items, left, right, max_items>>
     ELSE IF JsonShaped(c) /\ Loads(c).ok
     THEN LET o == Loads(c).val IN
          /\ obj' = o
          /\ original_size' = Len(c)
          /\ use_compact' = UseCompact(Len(c), lim)
          /\ IF HasItemsList(o)
             THEN /\ original_items' = Get(o, "items").l
                  /\ left' = 0
                  /\ right' = Len(Get(o, "items").l)
                  /\ pc' = "search"
             ELSE /\ pc' = "meta"
                  /\ UNCHANGED <<original_items, left, right>>
          /\ UNCHANGED <<max_items, path, result>>
     ELSE /\ result' = _truncate_text_response(c, lim)
          /\ path' = "text"
          /\ pc' = "done"
          /\ UNCHANGED <<obj, original_size, use_compact, original_items, left, right, max_items>>

\* a call of truncate_response(content, limit)
Call(c, lim) ==
  /\ UNCHANGED otherVars
  /\ pc = "idle"
  /\ Enter(c, lim)
  /\ reapplied' = FALSE

\* the caller hands a truncated result to truncate_response once more, with
\* the same limit
Recall ==
  /\ UNCHANGED otherVars
  /\ pc = "done"
  /\ ~reapplied
  /\ path \in {"json", "text"}
  /\ Enter(result, limit)
  /\ reapplied' = TRUE

\* one iteration of the loop of _find_max_items_for_limit (lines 144-150)
Probe ==
  /\ UNCHANGED <<reapplied, otherVars>>
  /\ pc = "search"
  /\ left < right
  /\ LET mid == Mid(left, right)
         o   == WithItems(obj, original_items, mid)
     IN /\ obj' = o
        /\ IF Fits(o, limit, use_compact)
           THEN left' = mid /\ right' = right
           ELSE right' = mid - 1 /\ left' = left
  /\ UNCHANGED <<pc, content, limit, original_size, use_compact, original_items,
                 max_items, path, result>>

\* the loop ends: return left (line 151), obj["items"] = original_items[:max_items]
\* (line 172)
SearchDone ==
  /\ UNCHANGED <<reapplied, otherVars>>
  /\ pc = "search"
  /\ ~(left < right)
  /\ max_items' = left
  /\ obj' = WithItems(obj, original_items, left)
  /\ pc' = "meta"
  /\ UNCHANGED <<content, limit, original_size, use_compact, original_items,
                 left, right, path, result>>

\* mutant: the fallback truncates the text of the half-truncated object
\* instead of the original content
Metadata_obj ==
  /\ UNCHANGED <<reapplied, otherVars>>
  /\ pc = "meta"
  /\ IF MetaRaises(obj)
     THEN /\ result' = _truncate_text_response(_serialize_json(obj, use_compact), limit)
          /\ path' = "text"
          /\ pc' = "done"
          /\ obj' = obj
     ELSE /\ obj' = AttachMetadata(obj, original_size, limit)
          /\ pc' = "shrink"
          /\ UNCHANGED <<path, result>>
  /\ UNCHANGED <<content, limit, original_size, use_compact, original_items,
                 left, right, max_items>>

\* lines 175-183; the AttributeError of a non-dict "_meta" is caught in
\* truncate_response (line 233), which falls through to line 238
Metadata ==
  /\ UNCHANGED <<reapplied, otherVars>>
  /\ pc = "meta"
  /\ IF MetaRaises(obj)
     THEN /\ result' = _truncate_text_response(content, limit)
          /\ path' = "text"
          /\ pc' = "done"
          /\ obj' = obj
     ELSE /\ obj' = AttachMetadata(obj, original_size, limit)
          /\ pc' = "shrink"
          /\ UNCHANGED <<path, result>>
  /\ UNCHANGED <<content, limit, original_size, use_compact, original_items,
                 left, right, max_items>>

\* mutant: no second pass after the metadata is attached
MustPop_never(o, lim, compact) == FALSE

\* while obj["items"] and len(json_str) > limit (line 188)
MustPop(o, lim, compact) ==
  /\ HasItemsList(o)
  /\ Len(Get(o, "items").l) > 0
  /\ ~Fits(o, lim, compact)

\* mutant: two items removed per iteration
PopItem_two(o) ==
  LET items == Get(o, "items").l
  IN  Put(o, "items", JList(Prefix(items, IF Len(items) >= 2 THEN Len(items) - 2 ELSE 0)))

\* obj["items"].pop()
PopItem(o) == Put(o, "items", JList(Prefix(Get(o, "items").l, Len(Get(o, "items").l) - 1)))

\* one iteration of the loop of lines 188-190
Pop ==
  /\ UNCHANGED <<reapplied, otherVars>>
  /\ pc = "shrink"
  /\ MustPop(obj, limit, use_compact)
  /\ obj' = PopItem(obj)
  /\ UNCHANGED <<pc, content, limit, original_size, use_compact, original_items,
                 left, right, max_items, path, result>>

\* line 192
Return ==
  /\ UNCHANGED <<reapplied, otherVars>>
  /\ pc = "shrink"
  /\ ~MustPop(obj, limit, use_compact)
  /\ result' = _serialize_json(obj, use_compact)
  /\ path' = "json"
  /\ pc' = "done"
  /\ UNCHANGED <<content, limit, obj, original_size, use_compact, original_items,
                 left, right, max_items>>

\* the call is over; the next call starts from nothing
Reset ==
  /\ UNCHANGED otherVars
  /\ pc = "done"
  /\ pc' = "idle"
  /\ content' = "" /\ limit' = 0 /\ obj' = JNull /\ original_size' = 0
  /\ use_compact' = FALSE /\ original_items' = <<>> /\ left' = 0 /\ right' = 0
  /\ max_items' = 0 /\ path' = "none" /\ result' = "" /\ reapplied' = FALSE

Next ==
  \/ \E c \in Docs : \E lim \in LimitsFor(c) : Call(c, lim)
  \/ Recall
  \/ Probe
  \/ SearchDone
  \/ Metadata
  \/ Pop
  \/ Return
  \/ Reset

Spec == Init /\ [][Next]_vars
(***************************************************************************)
(* Properties of the truncator                                             *)
(***************************************************************************)
Done == pc = "done"

\* the argument and the result, read back as JSON
In  == Loads(content)
Out == Loads(result)

ItemCount(o) == Len(Get(o, "items").l)

\* s is the text of a JSON object that has a list under "items"
ValidJsonObjectWithItems(s) ==
  LET r == Loads(s) IN r.ok /\ IsObj(r.val) /\ HasItemsList(r.val)

\* sub occurs in s
Contains(s, sub) == \E i \in 1..(Len(s) - Len(sub) + 1) : SubSeq(s, i, i + Len(sub) - 1) = sub

\* the density the truncator is to use for this call
CompactExpected == 5 * Len(content) > 6 * limit

StyleExpected == IF CompactExpected THEN "compact" ELSE "pretty"

\* the result's "_meta" carries the truncation metadata of this call
CarriesMeta ==
  /\ Out.ok /\ IsObj(Out.val) /\ HasKey(Out.val, "_meta")
  /\ LET m == Get(Out.val, "_meta") IN
       /\ IsObj(m)
       /\ HasKey(m, "truncated") /\ Get(m, "truncated") = JBool(TRUE)
       /\ HasKey(m, "original_size") /\ Get(m, "original_size") = JInt(Len(content))
       /\ HasKey(m, "limit") /\ Get(m, "limit") = JInt(limit)

\* the result is the plain-text truncation of the original content
IsTextTruncation ==
  /\ Len(result) = limit + Len(WarningBlock(Len(content), limit))
  /\ SubSeq(result, 1, limit) = SubSeq(content, 1, limit)
  /\ SubSeq(result, limit + 1, Len(result)) = WarningBlock(Len(content), limit)

(* C1: an input no longer than the limit, JSON-shaped or not, is returned
   unchanged; so a result that fits, handed to truncate_response again, comes
   back unchanged. *)
C1_UnderLimitUnchanged ==
  Done /\ Len(content) <= limit => result = content /\ path = "unchanged"

C1_Witness ==
  Done /\ reapplied /\ Len(content) <= limit /\ JsonShaped(content) /\ result = content

(* C2: for every valid JSON object with an "items" array, whatever is stored
   under "_meta", the result parses as JSON. *)
C2_AlwaysValidJson ==
  Done /\ ValidJsonObjectWithItems(content) => Out.ok

(* C3 as stated: on the JSON path with a non-empty "items" array the result is
   within the limit or has no items, and when the limit can hold skeleton plus
   metadata plus one item the result is within the limit with FEWER items than
   the input. *)
C3_Pre == Done /\ path = "json" /\ HasItemsList(In.val) /\ ItemCount(In.val) > 0

C3_CanHoldOne ==
  Len(_serialize_json(
        AttachMetadata(WithItems(In.val, Get(In.val, "items").l, 1), Len(content), limit),
        CompactExpected)) <= limit

C3_FewerItems ==
  C3_Pre =>
    /\ Len(result) <= limit \/ ItemCount(Out.val) = 0
    /\ C3_CanHoldOne => Len(result) <= limit /\ ItemCount(Out.val) < ItemCount(In.val)

(* C3 amended: ... with at most as many items as the input (all of them are
   kept when re-serializing alone makes the object fit). *)
C3_SizeBound ==
  C3_Pre =>
    /\ Len(result) <= limit \/ ItemCount(Out.val) = 0
    /\ C3_CanHoldOne => Len(result) <= limit /\ ItemCount(Out.val) <= ItemCount(In.val)

C3_Witness ==
  /\ C3_Pre /\ C3_CanHoldOne /\ Len(result) <= limit
  /\ 0 < ItemCount(Out.val) /\ ItemCount(Out.val) < ItemCount(In.val)

(* C4: _find_max_items_for_limit returns the largest k in 0..len(items) whose
   k-item prefix serializes within the limit: that prefix fits (or k = 0), the
   next one does not (if there is one), and the serialized size is
   non-decreasing in k. *)
SizeWith(k) == Len(_serialize_json(WithItems(obj, original_items, k), use_compact))

SearchReturned == pc = "meta" /\ HasItemsList(obj)

C4_MaxPrefix ==
  SearchReturned =>
    /\ max_items \in 0..Len(original_items)
    /\ max_items = 0 \/ SizeWith(max_items) <= limit
    /\ max_items < Len(original_items) => SizeWith(max_items + 1) > limit
    /\ \A k \in 0..Len(original_items) : SizeWith(k) <= limit => k <= max_items
    /\ \A k \in 1..Len(original_items) : SizeWith(k - 1) <= SizeWith(k)

C4_Witness ==
  SearchReturned /\ 0 < max_items /\ max_items < Len(original_items)

(* C5 as stated: whenever the result differs in length from the input, the
   result carries _meta.truncated = true, _meta.original_size = len(input) and
   _meta.limit = limit. *)
C5_MetaWheneverChanged ==
  Done /\ Len(result) # Len(content) => CarriesMeta

(* C5 amended: a result of the JSON path carries that metadata; a result that
   differs in length from the input comes from the JSON path or the text path,
   and a result of the text path is no JSON and carries the original length
   and the limit in its warning block instead. *)
C5_MetaOnJsonPath ==
  /\ Done /\ path = "json" => CarriesMeta
  /\ Done /\ Len(result) # Len(content) => path \in {"json", "text"}
  /\ Done /\ path = "text" => ~Out.ok /\ IsTextTruncation

C5_Witness ==
  Done /\ path = "json" /\ Len(result) # Len(content) /\ CarriesMeta

(* C6: an input longer than the limit that is not JSON-shaped comes back as
   its first limit characters followed by the warning block, which names
   "Response Truncated", "exceeds limit", the original length and the limit;
   the result is longer than the limit by the length of the block. *)
C6_TextTruncation ==
  Done /\ Len(content) > limit /\ ~JsonShaped(content) =>
    /\ path = "text"
    /\ SubSeq(result, 1, limit) = SubSeq(content, 1, limit)
    /\ LET block == SubSeq(result, limit + 1, Len(result)) IN
         /\ block = WarningBlock(Len(content), limit)
         /\ Contains(block, "Response Truncated")
         /\ Contains(block, "exceeds limit")
         /\ Contains(block, "(" \o IntStr(Len(content)) \o " chars)")
         /\ Contains(block, "(" \o IntStr(limit) \o " chars)")
         /\ Len(result) - limit = Len(block)

C6_Witness ==
  Done /\ Len(content) > limit /\ ~JsonShaped(content) /\ limit > 0 /\ path = "text"

(* C7: a JSON-shaped input over the limit that does not parse, or whose
   truncation raises, is answered with the plain-text truncation of the
   original content, whatever was already changed in the parsed object. *)
C7_FallbackToText ==
  /\ Done /\ Len(content) > limit /\ JsonShaped(content) /\ (~In.ok \/ MetaRaises(In.val))
       => path = "text" /\ IsTextTruncation
  /\ Done /\ Len(content) > limit /\ JsonShaped(content) /\ path # "json"
       => path = "text" /\ IsTextTruncation
  /\ pc = "meta" /\ MetaRaises(obj) => ENABLED Metadata

\* the truncation raised after the binary search had already cut "items"
C7_Witness ==
  /\ Done /\ path = "text" /\ JsonShaped(content) /\ In.ok /\ MetaRaises(In.val)
  /\ HasItemsList(obj) /\ ItemCount(obj) < ItemCount(In.val)

(* C8: with a limit below the size of the object without items (skeleton plus
   truncation metadata), a valid JSON object with an "items" array is answered
   with valid JSON whose "items" is empty. *)
C8_SkeletonSize ==
  LET o    == In.val
      meta == IF HasKey(o, "_meta") /\ IsObj(Get(o, "_meta")) THEN Get(o, "_meta") ELSE JObj(<<>>)
  IN Len(_serialize_json(
           Put(WithItems(o, <<>>, 0), "_meta", MetaUpdate(meta, Len(content), limit)),
           CompactExpected))

C8_EmptyItemsBelowSkeleton ==
  Done /\ Len(content) > limit /\ ValidJsonObjectWithItems(content) /\ limit < C8_SkeletonSize =>
    Out.ok /\ IsObj(Out.val) /\ HasItemsList(Out.val) /\ ItemCount(Out.val) = 0

(* C9: on the JSON path the result is compact exactly when the input is longer
   than 1.2 times the limit and indented by two spaces otherwise (also at
   exactly 1.2 times); the same density serves every probe, the shrink loop
   and the final output. *)
C9_Density ==
  /\ Done /\ path = "json" => result = Dumps(Out.val, StyleExpected, 0)
  /\ pc \in {"search", "meta", "shrink"} \/ (Done /\ path = "json")
       => use_compact = CompactExpected

C9_Witness ==
  Done /\ path = "json" /\ 5 * Len(content) = 6 * limit /\ ~use_compact
    /\ result = Dumps(Out.val, "pretty", 0)

(* C10: an over-limit JSON object without an "items" array is not shrunk:
   every original top-level key comes back with its value and only the
   truncation metadata is added under "_meta". *)
C10_NoItemsKeepsKeys ==
  Done /\ Len(content) > limit /\ In.ok /\ IsObj(In.val) /\ ~HasItemsList(In.val) =>
    /\ CarriesMeta
    /\ \A n \in 1..Len(In.val.o) :
         In.val.o[n][1] # "_meta" =>
           /\ HasKey(Out.val, In.val.o[n][1])
           /\ Get(Out.val, In.val.o[n][1]) = In.val.o[n][2]
    /\ \A n \in 1..Len(Out.val.o) :
         Out.val.o[n][1] # "_meta" => HasKey(In.val, Out.val.o[n][1])

\* a is the first Len(a) elements of b
IsPrefixOf(a, b) == Len(a) <= Len(b) /\ a = Prefix(b, Len(a))

(* C22: on the JSON path the returned "items" is a prefix of the input's
   "items": its first j elements, in order and unmodified, for some j in
   0..len(items); this holds of the object at every step of the truncation,
   so nothing is reordered, altered or taken from the middle or the end. *)
C22_ItemsPrefix ==
  /\ pc \in {"search", "meta", "shrink"} /\ HasItemsList(obj) =>
       IsPrefixOf(Get(obj, "items").l, original_items)
  /\ Done /\ path = "json" /\ HasItemsList(In.val) =>
       /\ original_items = Get(In.val, "items").l
       /\ HasItemsList(Out.val)
       /\ ItemCount(Out.val) \in 0..ItemCount(In.val)
       /\ IsPrefixOf(Get(Out.val, "items").l, Get(In.val, "items").l)

\* the shrink loop cut a proper, non-empty prefix shorter than the one the
\* binary search had found
C22_Witness ==
  /\ Done /\ path = "json" /\ HasItemsList(In.val)
  /\ 0 < ItemCount(Out.val) /\ ItemCount(Out.val) < max_items
  /\ Get(Out.val, "items").l = Prefix(Get(In.val, "items").l, ItemCount(Out.val))

\* the input has no "_meta" or an empty one
MetaAbsentOrEmpty(o) == ~HasKey(o, "_meta") \/ Get(o, "_meta") = JObj(<<>>)

\* the size of the final serialization were the first k items kept
FinalSize(k) ==
  Len(_serialize_json(
        AttachMetadata(WithItems(In.val, Get(In.val, "items").l, k), Len(content), limit),
        CompactExpected))

(* C23: for an input whose "_meta" is absent or empty, the number j of items
   in the result of the JSON path is the largest k in 0..len(items) whose
   final serialization (metadata included, in the chosen density) fits the
   limit, and 0 if none fits; if j < len(items), one item more would exceed
   the limit. *)
C23_MaxWithMetadata ==
  Done /\ path = "json" /\ HasItemsList(In.val) /\ MetaAbsentOrEmpty(In.val) =>
    LET n == ItemCount(In.val)
        j == ItemCount(Out.val)
        fitting == {k \in 0..n : FinalSize(k) <= limit}
    IN  /\ Len(result) = FinalSize(j)
        /\ fitting # {} => j \in fitting /\ \A k \in fitting : k <= j
        /\ fitting = {} => j = 0
        /\ j < n => FinalSize(j + 1) > limit

\* the metadata pushed the result of the binary search over the limit and
\* the shrink loop took off just as much as needed
C23_Witness ==
  /\ Done /\ path = "json" /\ HasItemsList(In.val) /\ MetaAbsentOrEmpty(In.val)
  /\ 0 < ItemCount(Out.val) /\ ItemCount(Out.val) < max_items
  /\ FinalSize(ItemCount(Out.val)) <= limit
  /\ FinalSize(ItemCount(Out.val) + 1) > limit

\* a call under way takes its next step: the function runs on
Running == Probe \/ SearchDone \/ Metadata \/ Pop \/ Return

SpecTerm == Spec /\ WF_vars(Running)

\* the number of items left in the object being truncated
ItemsLeft(o) == IF HasItemsList(o) THEN ItemCount(o) ELSE 0

(* C25: truncate_response terminates: in the binary search
   0 <= left <= right <= len(items) holds and every iteration makes
   right - left smaller; every iteration of the shrink loop removes exactly
   one item, is taken only while the output does not fit and "items" is not
   empty, so there are at most len(items) of them; and every call that
   entered the JSON path returns. *)
C25_Terminates ==
  /\ [](pc = "search" => 0 <= left /\ left <= right /\ right <= Len(original_items))
  /\ [][pc = "search" /\ pc' = "search" => right' - left' < right - left]_vars
  /\ [](pc = "shrink" => ItemsLeft(obj) <= Len(original_items))
  /\ [][pc = "shrink" /\ pc' = "shrink" =>
          /\ ItemsLeft(obj) > 0 /\ ~Fits(obj, limit, use_compact)
          /\ ItemsLeft(obj') = ItemsLeft(obj) - 1]_vars
  /\ [][pc = "shrink" /\ pc' = "done" =>
          ItemsLeft(obj) = 0 \/ Fits(obj, limit, use_compact)]_vars
  /\ [](pc \in {"search", "meta", "shrink"} => <>(pc = "done"))

\* the shrink loop has emptied a list of MaxItems items, one by one
C25_Witness ==
  /\ pc = "shrink" /\ HasItemsList(obj)
  /\ max_items = Len(original_items) /\ max_items > 1
  /\ ItemCount(obj) = 0

(***************************************************************************)
(* Part 2: the JSON list formatters of server.py.  A record of the backend *)
(* is a pydantic model; of its fields the model keeps id and name.  Each   *)
(* formatter is called from the idle state and its result is looked at     *)
(* before the next call.                                                   *)
(***************************************************************************)
MaxRecs == 3
MaxPage == 2

Record(id, name) == [id |-> id, name |-> name]

RecordName(n) == "Group " \o NatStr(n)

\* the records a reference list is made of; two of them share id 1
RecordPool ==
  {Record(1, RecordName(1)), Record(2, RecordName(2)), Record(3, RecordName(3)),
   Record(1, "Users")}

\* the reference lists, in every order
RecordLists == UNION {[1..len -> RecordPool] : len \in 0..MaxRecs}

\* one page of search results
Pages == {[n \in 1..len |-> Record(n, RecordName(n))] : len \in 0..MaxRecs}

\* BaseModel.model_dump(): the fields as a dict
model_dump(r) ==
  JObj(<< <<"id", JInt(r.id)>>, <<"name", JStr(r.name)>> >>
         \o (IF "state_type_id" \in DOMAIN r
             THEN << <<"state_type_id", JInt(r.state_type_id)>> >> ELSE <<>>))

\* [x.model_dump() for x in xs]
DumpAll(xs) == JList([n \in 1..Len(xs) |-> model_dump(xs[n])])

\* mutant: a page longer than per_page also counts as full
HasMore_ge(n, per_page) == n >= per_page

\* mutant: every page that is not empty counts as full
HasMore_nonempty(n, per_page) == n > 0

\* len(tickets) == per_page (lines 300-302, 354-356, 405-407)
HasMore(n, per_page) == n = per_page

_format_tickets_json(tickets, total, page, per_page) ==
  Dumps(JObj(<< <<"items", DumpAll(tickets)>>,
                <<"total", total>>,
                <<"count", JInt(Len(tickets))>>,
                <<"page", JInt(page)>>,
                <<"per_page", JInt(per_page)>>,
                <<"offset", JInt((page - 1) * per_page)>>,
                <<"has_more", JBool(HasMore(Len(tickets), per_page))>>,
                <<"next_page", IF HasMore(Len(tickets), per_page) THEN JInt(page + 1) ELSE JNull>>,
                <<"next_offset", IF HasMore(Len(tickets), per_page) THEN JInt(page * per_page) ELSE JNull>>,
                <<"_meta", JObj(<<>>)>> >>), "pretty", 0)

_format_users_json(users, total, page, per_page) ==
  Dumps(JObj(<< <<"items", DumpAll(users)>>,
                <<"total", total>>,
                <<"count", JInt(Len(users))>>,
                <<"page", JInt(page)>>,
                <<"per_page", JInt(per_page)>>,
                <<"offset", JInt((page - 1) * per_page)>>,
                <<"has_more", JBool(HasMore(Len(users), per_page))>>,
                <<"next_page", IF HasMore(Len(users), per_page) THEN JInt(page + 1) ELSE JNull>>,
                <<"next_offset", IF HasMore(Len(users), per_page) THEN JInt(page * per_page) ELSE JNull>>,
                <<"_meta", JObj(<<>>)>> >>), "pretty", 0)

_format_organizations_json(orgs, total, page, per_page) ==
  Dumps(JObj(<< <<"items", DumpAll(orgs)>>,
                <<"total", total>>,
                <<"count", JInt(Len(orgs))>>,
                <<"page", JInt(page)>>,
                <<"per_page", JInt(per_page)>>,
                <<"offset", JInt((page - 1) * per_page)>>,
                <<"has_more", JBool(HasMore(Len(orgs), per_page))>>,
                <<"next_page", IF HasMore(Len(orgs), per_page) THEN JInt(page + 1) ELSE JNull>>,
                <<"next_offset", IF HasMore(Len(orgs), per_page) THEN JInt(page * per_page) ELSE JNull>>,
                <<"_meta", JObj(<<>>)>> >>), "pretty", 0)

\* the place of x in the sorted list s: after every element whose id is not
\* greater (sorted() is stable)
InsertSorted(s, x) ==
  LET k == Cardinality({n \in 1..Len(s) : s[n].id <= x.id})
  IN SubSeq(s, 1, k) \o <<x>> \o SubSeq(s, k + 1, Len(s))

\* mutant: the list is formatted in the order it came in
RECURSIVE sorted_not(_)
sorted_not(items) == items

\* sorted(items, key=lambda x: x.id)
RECURSIVE sorted(_)
sorted(items) ==
  IF items = <<>> THEN <<>>
  ELSE InsertSorted(sorted(SubSeq(items, 1, Len(items) - 1)), items[Len(items)])

_format_list_json(items) ==
  LET sorted_items == sorted(items)
      total == Len(sorted_items)
      page == 1
      per_page == total
      offset == 0
  IN Dumps(JObj(<< <<"items", DumpAll(sorted_items)>>,
                   <<"total", JInt(total)>>,
                   <<"count", JInt(total)>>,
                   <<"page", JInt(page)>>,
                   <<"per_page", JInt(per_page)>>,
                   <<"offset", JInt(offset)>>,
                   <<"has_more", JBool(FALSE)>>,
                   <<"next_page", JNull>>,
                   <<"next_offset", JNull>>,
                   <<"_meta", JObj(<<>>)>> >>), "pretty", 0)

\* the callers pass total=None (search tools) or a known total
Totals(recs) == {JNull, JInt(Len(recs) + 4)}

PagedFormatters == {"_format_tickets_json", "_format_users_json", "_format_organizations_json"}

FormatPaged(fn, recs, total, page, per_page) ==
  /\ fmt_call.fn = "none"
  /\ fmt_call' = [fn |-> fn, items |-> recs, total |-> total, page |-> page, per_page |-> per_page]
  /\ fmt_result' = CASE fn = "_format_tickets_json" -> _format_tickets_json(recs, total, page, per_page)
                     [] fn = "_format_users_json" -> _format_users_json(recs, total, page, per_page)
                     [] fn = "_format_organizations_json" -> _format_organizations_json(recs, total, page, per_page)
  /\ UNCHANGED <<tvars, svars, stats, mvars, xvars>>

FormatList(recs) ==
  /\ fmt_call.fn = "none"
  /\ fmt_call' = [fn |-> "_format_list_json", items |-> recs]
  /\ fmt_result' = _format_list_json(recs)
  /\ UNCHANGED <<tvars, svars, stats, mvars, xvars>>

\* the caller has taken the result
FormatReturn ==
  /\ fmt_call.fn # "none"
  /\ fmt_call' = [fn |-> "none"]
  /\ fmt_result' = ""
  /\ UNCHANGED <<tvars, svars, stats, mvars, xvars>>

NextFormat ==
  \/ \E fn \in PagedFormatters : \E recs \in Pages : \E total \in Totals(recs) :
       \E page \in 1..MaxPage : \E per_page \in 1..(MaxRecs + 1) :
         FormatPaged(fn, recs, total, page, per_page)
  \/ \E recs \in RecordLists : FormatList(recs)
  \/ FormatReturn

SpecFormat == Init /\ [][NextFormat]_vars

(***************************************************************************)
(* Properties of the formatters                                            *)
(***************************************************************************)
FmtOut == Loads(fmt_result).val

PagedCall == fmt_call.fn \in PagedFormatters

ListCall == fmt_call.fn = "_format_list_json"

\* C11: the envelope of the three paged formatters: count is the number of
\* items, offset is (page-1)*per_page, has_more says that the page is full,
\* next_page and next_offset are page+1 and page*per_page when has_more and
\* null otherwise, and "_meta" is an empty object
C11_Envelope ==
  PagedCall =>
    /\ Loads(fmt_result).ok
    /\ LET o == FmtOut
           n == Len(fmt_call.items)
           more == (n = fmt_call.per_page)
       IN /\ Get(o, "items") = DumpAll(fmt_call.items)
          /\ Get(o, "count") = JInt(Len(Get(o, "items").l))
          /\ Get(o, "count") = JInt(n)
          /\ Get(o, "total") = fmt_call.total
          /\ Get(o, "page") = JInt(fmt_call.page)
          /\ Get(o, "per_page") = JInt(fmt_call.per_page)
          /\ Get(o, "offset") = JInt((fmt_call.page - 1) * fmt_call.per_page)
          /\ Get(o, "has_more") = JBool(more)
          /\ Get(o, "next_page") = (IF more THEN JInt(fmt_call.page + 1) ELSE JNull)
          /\ Get(o, "next_offset") = (IF more THEN JInt(fmt_call.page * fmt_call.per_page) ELSE JNull)
          /\ Get(o, "_meta") = JObj(<<>>)

\* a later page that is full, and a page longer than per_page
C11_Witness ==
  /\ PagedCall
  /\ fmt_call.page > 1
  /\ Get(FmtOut, "has_more") = JBool(TRUE)
  /\ Get(FmtOut, "next_page") = JInt(fmt_call.page + 1)


\* the orders a list can come in
Reorderings(s) ==
  {[n \in 1..Len(s) |-> s[f[n]]] :
     f \in {g \in [1..Len(s) -> 1..Len(s)] : \A a, b \in 1..Len(s) : a # b => g[a] # g[b]}}

DistinctIds(s) == \A a, b \in 1..Len(s) : a # b => s[a].id # s[b].id

AscendingById(l) ==
  \A a, b \in 1..Len(l) : a < b => Get(l[a], "id").i <= Get(l[b], "id").i

\* the fields of the envelope of _format_list_json that do not depend on
\* the order of the input
ListEnvelope ==
  /\ Loads(fmt_result).ok
  /\ LET o == FmtOut
         n == Len(fmt_call.items)
     IN /\ AscendingById(Get(o, "items").l)
        /\ Get(o, "items") \in {DumpAll(q) : q \in Reorderings(fmt_call.items)}
        /\ Get(o, "total") = JInt(n)
        /\ Get(o, "count") = JInt(n)
        /\ Get(o, "page") = JInt(1)
        /\ Get(o, "per_page") = JInt(n)
        /\ Get(o, "offset") = JInt(0)
        /\ Get(o, "has_more") = JBool(FALSE)
        /\ Get(o, "next_page") = JNull
        /\ Get(o, "next_offset") = JNull

MaxQueries == 2

Raises == [raises |-> TRUE]
Returns(data) == [raises |-> FALSE, data |-> data]

\* what client.get_groups(), get_ticket_states() and get_ticket_priorities()
\* may bring back; the last list of each has a dict that lacks a required field
GroupsData ==
  {<<>>,
   <<[id |-> 1, name |-> "Users"], [id |-> 2, name |-> "Support"]>>,
   <<[id |-> 1, name |-> "Users"], [id |-> 2]>>}

StatesData ==
  {<<>>,
   <<[id |-> 1, name |-> "new", state_type_id |-> 1],
     [id |-> 2, name |-> "open", state_type_id |-> 2],
     [id |-> 3, name |-> "closed", state_type_id |-> 3],
     [id |-> 4, name |-> "pending reminder", state_type_id |-> 4],
     [id |-> 5, name |-> "pending close", state_type_id |-> 5],
     [id |-> 6, name |-> "merged", state_type_id |-> 6]>>,
   <<[id |-> 1, name |-> "new"]>>}

PrioritiesData ==
  {<<[id |-> 1, name |-> "1 low"]>>,
   <<[name |-> "2 normal"]>>}

Backend(data) == {Raises} \cup {Returns(d) : d \in data}

\* pydantic: Model(**d) raises ValidationError when a required field is missing
Validates(d, fields) == fields \subseteq DOMAIN d

AllValidate(data, fields) == \A n \in 1..Len(data) : Validates(data[n], fields)

Group(d) == [id |-> d.id, name |-> d.name]
TicketState(d) == [id |-> d.id, name |-> d.name, state_type_id |-> d.state_type_id]
TicketPriority(d) == [id |-> d.id, name |-> d.name]

\* what an operation leaves behind for its caller
Returned(op, requests, ret) == [op |-> op, outcome |-> "ok", requests |-> requests, ret |-> ret]
Raised(op, error, requests) == [op |-> op, outcome |-> error, requests |-> requests, ret |-> <<>>]

\* one more request for a reference list; MaxQueries stands for "MaxQueries
\* or more"
Asked(k) ==
  [queried EXCEPT ![k] = IF queried[k] < MaxQueries THEN queried[k] + 1 ELSE MaxQueries]

\* mutant: get_client hands out whatever is stored
get_client_unchecked == Returns(client)

\* get_client (lines 531-535): `if not self.client: raise RuntimeError(...)`
get_client == IF client = "None" THEN Raises ELSE Returns(client)

\* initialize (lines 537-566), awaited by the lifespan (line 521): the client
\* is constructed and stored, then the connection is tested; either step may
\* raise, and the exception is logged and raised again
initialize(outcome) ==
  /\ initialize_calls' = initialize_calls + 1
  /\ client' = IF outcome = "ZammadClient() raises" THEN client ELSE "ZammadClient"

InitializeOutcomes == {"ZammadClient() raises", "get_current_user() raises", "connected"}

\* lifespan, lines 521-523: initialize, then yield to request handling; an
\* exception of initialize leaves the context manager before the try
LifespanStart(outcome) ==
  /\ lifespan_pc = "new"
  /\ initialize(outcome)
  /\ lifespan_pc' = IF outcome = "connected" THEN "serving" ELSE "failed"
  /\ last' = IF outcome = "connected" THEN Returned("lifespan", 0, <<>>)
             ELSE Raised("lifespan", "Exception", 0)
  /\ UNCHANGED <<nonServer, cvars, queried>>

\* mutant: the finally block leaves the client in place
LifespanExit_keep(how) ==
  /\ lifespan_pc = "serving"
  /\ client' = client
  /\ lifespan_pc' = IF how = "normal" THEN "exited" ELSE "aborted"
  /\ last' = IF how = "normal" THEN Returned("lifespan exit", 0, <<>>)
             ELSE Raised("lifespan exit", "Exception", 0)
  /\ UNCHANGED <<nonServer, cvars, initialize_calls, queried>>

\* lifespan, lines 524-527: the finally block, entered when serving ends
\* ("exited") or an exception is thrown into the yield ("aborted")
LifespanExit(how) ==
  /\ lifespan_pc = "serving"
  /\ client' = IF client # "None" THEN "None" ELSE client
  /\ lifespan_pc' = IF how = "normal" THEN "exited" ELSE "aborted"
  /\ last' = IF how = "normal" THEN Returned("lifespan exit", 0, <<>>)
             ELSE Raised("lifespan exit", "Exception", 0)
  /\ UNCHANGED <<nonServer, cvars, initialize_calls, queried>>

\* a call of get_client() as such
GetClient ==
  /\ last' = IF get_client.raises THEN Raised("get_client", "RuntimeError", 0)
             ELSE Returned("get_client", 0, get_client.data)
  /\ UNCHANGED <<nonServer, client, cvars, lifespan_pc, initialize_calls, queried>>

\* mutant: the guard tests the cached list for truth, not for presence
CacheHit_truthy(attr) == hasattr(attr) /\ attr.v # <<>>

\* not `not hasattr(self, "_x_cache")` (lines 987, 995, 1003)
CacheHit(attr) == hasattr(attr)

\* how a call ends: it returns ret or raises, after so many backend requests
Ok(requests, ret) == [outcome |-> "ok", requests |-> requests, ret |-> ret]
Err(error, requests) == [outcome |-> error, requests |-> requests, ret |-> <<>>]

\* the caller op has ended as r says
Ended(op, r) == [op |-> op, outcome |-> r.outcome, requests |-> r.requests, ret |-> r.ret]

\* The cached accessors, given what the backend answers if it is asked: r is
\* how the accessor ends, cache the cache attribute as it leaves it, asked
\* whether it sent the request.
\* mutant: the records that validate before the first that does not are
\* stored
_get_cached_groups_partial(groups_data) ==
  IF CacheHit(_groups_cache)
  THEN [r |-> Ok(0, _groups_cache.v), cache |-> _groups_cache, asked |-> FALSE]
  ELSE IF get_client.raises
  THEN [r |-> Err("RuntimeError", 0), cache |-> _groups_cache, asked |-> FALSE]
  ELSE IF groups_data.raises
  THEN [r |-> Err("BackendError", 1), cache |-> _groups_cache, asked |-> TRUE]
  ELSE IF ~AllValidate(groups_data.data, {"id", "name"})
  THEN [r |-> Err("ValidationError", 1),
        cache |-> Present(<<Group(groups_data.data[1])>>), asked |-> TRUE]
  ELSE LET groups == [n \in 1..Len(groups_data.data) |-> Group(groups_data.data[n])]
       IN  [r |-> Ok(1, groups), cache |-> Present(groups), asked |-> TRUE]

\* lines 985-991
_get_cached_groups(groups_data) ==
  IF CacheHit(_groups_cache)
  THEN [r |-> Ok(0, _groups_cache.v), cache |-> _groups_cache, asked |-> FALSE]
  ELSE IF get_client.raises
  THEN [r |-> Err("RuntimeError", 0), cache |-> _groups_cache, asked |-> FALSE]
  ELSE IF groups_data.raises
  THEN [r |-> Err("BackendError", 1), cache |-> _groups_cache, asked |-> TRUE]
  ELSE IF ~AllValidate(groups_data.data, {"id", "name"})
  THEN [r |-> Err("ValidationError", 1), cache |-> _groups_cache, asked |-> TRUE]
  ELSE LET groups == [n \in 1..Len(groups_data.data) |-> Group(groups_data.data[n])]
       IN  [r |-> Ok(1, groups), cache |-> Present(groups), asked |-> TRUE]

\* lines 993-999
_get_cached_states(states_data) ==
  IF CacheHit(_states_cache)
  THEN [r |-> Ok(0, _states_cache.v), cache |-> _states_cache, asked |-> FALSE]
  ELSE IF get_client.raises
  THEN [r |-> Err("RuntimeError", 0), cache |-> _states_cache, asked |-> FALSE]
  ELSE IF states_data.raises
  THEN [r |-> Err("BackendError", 1), cache |-> _states_cache, asked |-> TRUE]
  ELSE IF ~AllValidate(states_data.data, {"id", "name", "state_type_id"})
  THEN [r |-> Err("ValidationError", 1), cache |-> _states_cache, asked |-> TRUE]
  ELSE LET states == [n \in 1..Len(states_data.data) |-> TicketState(states_data.data[n])]
       IN  [r |-> Ok(1, states), cache |-> Present(states), asked |-> TRUE]

\* lines 1001-1007
_get_cached_priorities(priorities_data) ==
  IF CacheHit(_priorities_cache)
  THEN [r |-> Ok(0, _priorities_cache.v), cache |-> _priorities_cache, asked |-> FALSE]
  ELSE IF get_client.raises
  THEN [r |-> Err("RuntimeError", 0), cache |-> _priorities_cache, asked |-> FALSE]
  ELSE IF priorities_data.raises
  THEN [r |-> Err("BackendError", 1), cache |-> _priorities_cache, asked |-> TRUE]
  ELSE IF ~AllValidate(priorities_data.data, {"id", "name"})
  THEN [r |-> Err("ValidationError", 1), cache |-> _priorities_cache, asked |-> TRUE]
  ELSE LET priorities == [n \in 1..Len(priorities_data.data) |-> TicketPriority(priorities_data.data[n])]
       IN  [r |-> Ok(1, priorities), cache |-> Present(priorities), asked |-> TRUE]

\* what the backend may answer to an accessor: with a cache hit or without a
\* client no request is sent and there is nothing to choose
Answers(cache, data) ==
  IF CacheHit(cache) \/ get_client.raises THEN {Raises} ELSE Backend(data)

\* the backend was asked for list k, or was not
Queried(k, asked) == IF asked THEN Asked(k) ELSE queried

\* direct calls of the accessors
GetCachedGroups ==
  /\ \E groups_data \in Answers(_groups_cache, GroupsData) :
       LET c == _get_cached_groups(groups_data)
       IN  /\ _groups_cache' = c.cache
           /\ queried' = Queried("groups", c.asked)
           /\ last' = Ended("_get_cached_groups", c.r)
  /\ UNCHANGED <<nonServer, client, _states_cache, _priorities_cache,
                 _state_type_mapping, lifespan_pc, initialize_calls>>

GetCachedStates ==
  /\ \E states_data \in Answers(_states_cache, StatesData) :
       LET c == _get_cached_states(states_data)
       IN  /\ _states_cache' = c.cache
           /\ queried' = Queried("states", c.asked)
           /\ last' = Ended("_get_cached_states", c.r)
  /\ UNCHANGED <<nonServer, client, _groups_cache, _priorities_cache,
                 _state_type_mapping, lifespan_pc, initialize_calls>>

GetCachedPriorities ==
  /\ \E priorities_data \in Answers(_priorities_cache, PrioritiesData) :
       LET c == _get_cached_priorities(priorities_data)
       IN  /\ _priorities_cache' = c.cache
           /\ queried' = Queried("priorities", c.asked)
           /\ last' = Ended("_get_cached_priorities", c.r)
  /\ UNCHANGED <<nonServer, client, _groups_cache, _states_cache,
                 _state_type_mapping, lifespan_pc, initialize_calls>>

\* {state.name: state.state_type_id for state in states}: a later state of
\* the same name overrides an earlier one
StateTypeMapping(states) ==
  [name \in {states[n].name : n \in 1..Len(states)} |->
     states[CHOOSE n \in 1..Len(states) :
              /\ states[n].name = name
              /\ \A k \in 1..Len(states) : states[k].name = name => k <= n].state_type_id]

\* _get_state_type_mapping (lines 1053-1062), given what the backend answers
\* if it is asked for the states: mapping is the attribute as it leaves it
_get_state_type_mapping(states_data) ==
  IF hasattr(_state_type_mapping)
  THEN [r |-> Ok(0, _state_type_mapping.v), cache |-> _states_cache,
        mapping |-> _state_type_mapping, asked |-> FALSE]
  ELSE LET c == _get_cached_states(states_data)
       IN  IF c.r.outcome = "ok"
           THEN [r |-> Ok(c.r.requests, StateTypeMapping(c.r.ret)), cache |-> c.cache,
                 mapping |-> Present(StateTypeMapping(c.r.ret)), asked |-> c.asked]
           ELSE [r |-> c.r, cache |-> c.cache, mapping |-> _state_type_mapping,
                 asked |-> c.asked]

\* what the backend may answer to _get_state_type_mapping
MappingAnswers ==
  IF hasattr(_state_type_mapping) THEN {Raises} ELSE Answers(_states_cache, StatesData)

GetStateTypeMapping ==
  /\ \E states_data \in MappingAnswers :
       LET m == _get_state_type_mapping(states_data)
       IN  /\ _states_cache' = m.cache
           /\ _state_type_mapping' = m.mapping
           /\ queried' = Queried("states", m.asked)
           /\ last' = Ended("_get_state_type_mapping", m.r)
  /\ UNCHANGED <<nonServer, client, _groups_cache, _priorities_cache,
                 lifespan_pc, initialize_calls>>

\* the cache attributes the server has at the moment
Populated ==
  {a \in {"_groups_cache", "_states_cache", "_priorities_cache", "_state_type_mapping"} :
     CASE a = "_groups_cache" -> hasattr(_groups_cache)
       [] a = "_states_cache" -> hasattr(_states_cache)
       [] a = "_priorities_cache" -> hasattr(_priorities_cache)
       [] a = "_state_type_mapping" -> hasattr(_state_type_mapping)}

\* what clear_caches leaves behind for its caller: it returns None; deleted
\* records the attributes it removed
Cleared(deleted) ==
  [op |-> "clear_caches", outcome |-> "ok", requests |-> 0, ret |-> <<>>, deleted |-> deleted]

\* mutant: the state-type mapping is left in place
clear_caches_lists ==
  /\ _groups_cache' = Absent
  /\ _states_cache' = Absent
  /\ _priorities_cache' = Absent
  /\ UNCHANGED _state_type_mapping
  /\ queried' = [k \in ReferenceLists |-> 0]
  /\ last' = Cleared(Populated \ {"_state_type_mapping"})
  /\ UNCHANGED <<nonServer, client, lifespan_pc, initialize_calls>>

\* clear_caches (lines 1009-1018): each attribute is deleted if it is there
clear_caches ==
  /\ _groups_cache' = IF hasattr(_groups_cache) THEN Absent ELSE _groups_cache
  /\ _states_cache' = IF hasattr(_states_cache) THEN Absent ELSE _states_cache
  /\ _priorities_cache' = IF hasattr(_priorities_cache) THEN Absent ELSE _priorities_cache
  /\ _state_type_mapping' = IF hasattr(_state_type_mapping) THEN Absent ELSE _state_type_mapping
  /\ queried' = [k \in ReferenceLists |-> 0]
  /\ last' = Cleared(Populated)
  /\ UNCHANGED <<nonServer, client, lifespan_pc, initialize_calls>>

\* str.lower() of the three item types in use
Lower(item_type) ==
  CASE item_type = "Group" -> "group"
    [] item_type = "Ticket State" -> "ticket state"
    [] item_type = "Ticket Priority" -> "ticket priority"

\* "\n".join(lines)
RECURSIVE JoinLines(_)
JoinLines(lines) ==
  IF lines = <<>> THEN ""
  ELSE IF Len(lines) = 1 THEN lines[1]
  ELSE lines[1] \o "\n" \o JoinLines(Tail(lines))

\* lines 414-434
_format_list_markdown(items, item_type) ==
  LET sorted_items == sorted(items)
      lines == <<"# " \o item_type \o " List", "",
                 "Found " \o NatStr(Len(sorted_items)) \o " " \o Lower(item_type) \o "(s)", "">>
                 \o [n \in 1..Len(sorted_items) |->
                       "- **" \o sorted_items[n].name \o "** (ID: " \o IntStr(sorted_items[n].id) \o ")"]
  IN JoinLines(lines)

ResponseFormats == {"json", "markdown"}

\* the body of the three list tools after the accessor call; the result is
\* handed to truncate_response (Part 1), which returns a text under
\* CHARACTER_LIMIT as it is
ListResult(r, response_format, item_type) ==
  IF r.outcome # "ok" THEN r
  ELSE IF response_format = "json" THEN Ok(r.requests, _format_list_json(r.ret))
  ELSE Ok(r.requests, _format_list_markdown(r.ret, item_type))

\* lines 1258-1275
zammad_list_groups(response_format) ==
  /\ \E groups_data \in Answers(_groups_cache, GroupsData) :
       LET c == _get_cached_groups(groups_data)
       IN  /\ _groups_cache' = c.cache
           /\ queried' = Queried("groups", c.asked)
           /\ last' = Ended("zammad_list_groups", ListResult(c.r, response_format, "Group"))
  /\ UNCHANGED <<nonServer, client, _states_cache, _priorities_cache,
                 _state_type_mapping, lifespan_pc, initialize_calls>>

\* lines 1285-1302
zammad_list_ticket_states(response_format) ==
  /\ \E states_data \in Answers(_states_cache, StatesData) :
       LET c == _get_cached_states(states_data)
       IN  /\ _states_cache' = c.cache
           /\ queried' = Queried("states", c.asked)
           /\ last' = Ended("zammad_list_ticket_states", ListResult(c.r, response_format, "Ticket State"))
  /\ UNCHANGED <<nonServer, client, _groups_cache, _priorities_cache,
                 _state_type_mapping, lifespan_pc, initialize_calls>>

\* lines 1312-1329
zammad_list_ticket_priorities(response_format) ==
  /\ \E priorities_data \in Answers(_priorities_cache, PrioritiesData) :
       LET c == _get_cached_priorities(priorities_data)
       IN  /\ _priorities_cache' = c.cache
           /\ queried' = Queried("priorities", c.asked)
           /\ last' = Ended("zammad_list_ticket_priorities", ListResult(c.r, response_format, "Ticket Priority"))
  /\ UNCHANGED <<nonServer, client, _groups_cache, _states_cache,
                 _state_type_mapping, lifespan_pc, initialize_calls>>

\* zammad_create_ticket (lines 668-680), one of the tools that begin with
\* client = self.get_client() and then make one backend request
zammad_create_ticket ==
  /\ IF get_client.raises
     THEN last' = Raised("zammad_create_ticket", "RuntimeError", 0)
     ELSE \E ticket_data \in Backend({[id |-> 1, title |-> "Printer"]}) :
            last' = IF ticket_data.raises
                    THEN Raised("zammad_create_ticket", "BackendError", 1)
                    ELSE Returned("zammad_create_ticket", 1, ticket_data.data)
  /\ UNCHANGED <<nonServer, client, cvars, lifespan_pc, initialize_calls, queried>>

NextServer ==
  \/ \E outcome \in InitializeOutcomes : LifespanStart(outcome)
  \/ \E how \in {"normal", "exception"} : LifespanExit(how)
  \/ GetClient
  \/ GetCachedGroups
  \/ GetCachedStates
  \/ GetCachedPriorities
  \/ GetStateTypeMapping
  \/ clear_caches
  \/ \E response_format \in ResponseFormats : zammad_list_groups(response_format)
  \/ \E response_format \in ResponseFormats : zammad_list_ticket_states(response_format)
  \/ \E response_format \in ResponseFormats : zammad_list_ticket_priorities(response_format)
  \/ zammad_create_ticket

SpecServer == Init /\ [][NextServer]_vars


(***************************************************************************)
(* Part 4: ticket statistics (zammad_get_ticket_stats).  A ticket is the   *)
(* dict the backend returns, held as a JSON object.  The tool is a plain   *)
(* function: while it scans, nothing else runs on the server.              *)
(***************************************************************************)
MaxScanPages == 3

MAX_PAGES_FOR_TICKET_SCAN == 1000
MAX_PER_PAGE == 100
STATE_TYPE_NEW == 1
STATE_TYPE_OPEN == 2
STATE_TYPE_CLOSED == 3
STATE_TYPE_PENDING_REMINDER == 4
STATE_TYPE_PENDING_CLOSE == 5

\* dict.get(key), None when the key is missing
DictGet(d, k) == IF HasKey(d, k) THEN Get(d, k) ELSE JNull

\* str(x) of a JSON scalar
StrOf(v) ==
  CASE v.t = "str" -> v.s
    [] v.t = "int" -> IntStr(v.i)
    [] v.t = "null" -> "None"
    [] v.t = "bool" -> IF v.b THEN "True" ELSE "False"

\* bool(x)
Truthy(v) ==
  CASE v.t = "str" -> v.s # ""
    [] v.t = "int" -> v.i # 0
    [] v.t = "null" -> FALSE
    [] v.t = "bool" -> v.b
    [] v.t = "list" -> v.l # <<>>
    [] v.t = "obj" -> v.o # <<>>

\* lines 1021-1035
_extract_state_name(ticket) ==
  LET state == DictGet(ticket, "state")
  IN IF state.t = "str" THEN state.s
     ELSE IF state.t = "obj"
          THEN (IF HasKey(state, "name") THEN StrOf(Get(state, "name")) ELSE "")
     ELSE ""

\* lines 1038-1051
_is_ticket_escalated(ticket) ==
  \/ Truthy(DictGet(ticket, "first_response_escalation_at"))
  \/ Truthy(DictGet(ticket, "close_escalation_at"))
  \/ Truthy(DictGet(ticket, "update_escalation_at"))

\* state_type_mapping.get(state_name, 0)
MappingGet(state_type_mapping, state_name) ==
  IF state_name \in DOMAIN state_type_mapping THEN state_type_mapping[state_name] ELSE 0

\* mutant: pending reminder is counted as open
_categorize_ticket_state_reminder(state_type_mapping, state_name) ==
  LET state_type_id == MappingGet(state_type_mapping, state_name)
  IN IF state_type_id \in {STATE_TYPE_NEW, STATE_TYPE_OPEN, STATE_TYPE_PENDING_REMINDER} THEN <<1, 0, 0>>
     ELSE IF state_type_id = STATE_TYPE_CLOSED THEN <<0, 1, 0>>
     ELSE IF state_type_id \in {STATE_TYPE_PENDING_REMINDER, STATE_TYPE_PENDING_CLOSE} THEN <<0, 0, 1>>
     ELSE <<0, 0, 0>>

\* lines 1064-1089, given the mapping that _get_state_type_mapping returned
_categorize_ticket_state(state_type_mapping, state_name) ==
  LET state_type_id == MappingGet(state_type_mapping, state_name)
  IN IF state_type_id \in {STATE_TYPE_NEW, STATE_TYPE_OPEN} THEN <<1, 0, 0>>
     ELSE IF state_type_id = STATE_TYPE_CLOSED THEN <<0, 1, 0>>
     ELSE IF state_type_id \in {STATE_TYPE_PENDING_REMINDER, STATE_TYPE_PENDING_CLOSE} THEN <<0, 0, 1>>
     ELSE <<0, 0, 0>>

\* lines 1091-1117: <<total, open, closed, pending, escalated>> of one page
RECURSIVE _process_ticket_batch(_, _)
_process_ticket_batch(state_type_mapping, tickets) ==
  IF tickets = <<>> THEN <<0, 0, 0, 0, 0>>
  ELSE LET rest == _process_ticket_batch(state_type_mapping, Tail(tickets))
           inc == _categorize_ticket_state(state_type_mapping, _extract_state_name(Head(tickets)))
       IN <<rest[1] + 1, rest[2] + inc[1], rest[3] + inc[2], rest[4] + inc[3],
            rest[5] + (IF _is_ticket_escalated(Head(tickets)) THEN 1 ELSE 0)>>

\* mutant: the page number is not advanced
NextPage_same(page) == page

\* page += 1 (line 1152)
NextPage(page) == page + 1

\* tickets as search_tickets returns them
Ticket(id, fields) == JObj(<< <<"id", JInt(id)>> >> \o fields)

StateStr(name) == << <<"state", JStr(name)>> >>
StateDict(name) == << <<"state", JObj(<< <<"name", JStr(name)>>, <<"id", JInt(2)>> >>)>> >>

\* the pages the backend may serve: the two pages of test_get_ticket_stats_tool
\* and a page of tickets that fall in no category
TicketPages ==
  {<<Ticket(1, StateStr("new")), Ticket(2, StateStr("open")), Ticket(3, StateDict("open"))>>,
   <<Ticket(4, StateStr("closed")), Ticket(5, StateDict("pending reminder")),
     Ticket(6, StateStr("open") \o << <<"first_response_escalation_at", JStr("2024-01-01")>> >>)>>,
   <<Ticket(7, StateStr("merged") \o << <<"close_escalation_at", JNull>> >>),
     Ticket(8, StateStr("spam") \o << <<"update_escalation_at", JStr("2024-01-02")>> >>),
     Ticket(9, << <<"state", JObj(<< <<"id", JInt(2)>> >>)>>, <<"close_escalation_at", JStr("2024-01-03")>> >>),
     Ticket(10, << <<"state", JNull>>, <<"first_response_escalation_at", JNull>> >>)>>}

\* the backend has at most MaxScanPages pages of tickets
SearchAnswers ==
  IF Len(stats.received) < MaxScanPages
  THEN Backend(TicketPages \cup {<<>>})
  ELSE {Returns(<<>>)}

Groups == {"None", "Support"}

\* _build_stats_result (lines 1164-1208)
_build_stats_result(s) ==
  [total_count |-> s.total_count, open_count |-> s.open_count,
   closed_count |-> s.closed_count, pending_count |-> s.pending_count,
   escalated_count |-> s.escalated_count]

\* zammad_get_ticket_stats, lines 1233-1236, and the locals of
\* _collect_ticket_stats_paginated before its loop (lines 1133-1140)
StatsCall(group) ==
  /\ stats.pc # "scan"
  /\ IF get_client.raises
     THEN /\ last' = Raised("zammad_get_ticket_stats", "RuntimeError", 0)
          /\ stats' = [pc |-> "idle"]
     ELSE /\ last' = [op |-> "zammad_get_ticket_stats", outcome |-> "running",
                      requests |-> 0, ret |-> <<>>]
          /\ stats' = [pc |-> "scan", group |-> group, page |-> 1, per_page |-> MAX_PER_PAGE,
                       total_count |-> 0, open_count |-> 0, closed_count |-> 0,
                       pending_count |-> 0, escalated_count |-> 0,
                       requests |-> <<>>, received |-> <<>>, backend_requests |-> 0]
  /\ UNCHANGED <<tvars, fvars, mvars, xvars, client, cvars, lifespan_pc, initialize_calls, queried>>

\* the scan ends: by return (lines 1162 and 1246) or by an exception
StatsEnd(s, r) ==
  /\ stats' = [s EXCEPT !.pc = "done", !.backend_requests = @ + r.requests]
  /\ last' = Ended("zammad_get_ticket_stats",
                   [r EXCEPT !.requests = s.backend_requests + r.requests])

\* the cap test written with >=
PastCap_ge(page) == page >= MAX_PAGES_FOR_TICKET_SCAN

\* the safety limit of the scan: if page > MAX_PAGES_FOR_TICKET_SCAN
PastCap(page) == page > MAX_PAGES_FOR_TICKET_SCAN

\* one iteration of the loop of _collect_ticket_stats_paginated (lines
\* 1142-1160), given what search_tickets brings back.
\* _categorize_ticket_state asks for the state-type mapping for every
\* ticket; the first call of a page may fetch the states, the later ones
\* find the mapping present.
ScanPage(tickets) ==
  LET request == [group |-> stats.group, page |-> stats.page, per_page |-> stats.per_page]
      asked == [stats EXCEPT !.requests = Append(@, request), !.backend_requests = @ + 1]
  IN IF tickets.raises
     THEN /\ StatsEnd(asked, Err("BackendError", 0))
          /\ UNCHANGED <<_states_cache, _state_type_mapping, queried>>
     ELSE IF tickets.data = <<>>
     THEN /\ StatsEnd(asked, Ok(0, _build_stats_result(asked)))
          /\ UNCHANGED <<_states_cache, _state_type_mapping, queried>>
     ELSE \E states_data \in MappingAnswers :
            LET m == _get_state_type_mapping(states_data)
                r == m.r
            IN  /\ _states_cache' = m.cache
                /\ _state_type_mapping' = m.mapping
                /\ queried' = Queried("states", m.asked)
                /\ IF r.outcome # "ok" THEN StatsEnd(asked, r)
                   ELSE LET batch == _process_ticket_batch(r.ret, tickets.data)
                            counted == [asked EXCEPT !.total_count = @ + batch[1],
                                                     !.open_count = @ + batch[2],
                                                     !.closed_count = @ + batch[3],
                                                     !.pending_count = @ + batch[4],
                                                     !.escalated_count = @ + batch[5],
                                                     !.received = Append(@, tickets.data),
                                                     !.backend_requests = @ + r.requests,
                                                     !.page = NextPage(@)]
                        IN IF PastCap(counted.page)
                           THEN StatsEnd(counted, Ok(0, _build_stats_result(counted)))
                           ELSE /\ stats' = counted
                                /\ UNCHANGED last

\* an iteration against the backend of at most MaxScanPages pages
StatsPage ==
  /\ stats.pc = "scan"
  /\ UNCHANGED <<tvars, fvars, mvars, xvars, client, _groups_cache, _priorities_cache,
                 lifespan_pc, initialize_calls>>
  /\ \E tickets \in SearchAnswers : ScanPage(tickets)

\* the server operations that may run between two statistics calls
NextStats ==
  \/ \E outcome \in InitializeOutcomes : stats.pc # "scan" /\ LifespanStart(outcome)
  \/ \E how \in {"normal", "exception"} : stats.pc # "scan" /\ LifespanExit(how)
  \/ stats.pc # "scan" /\ GetStateTypeMapping
  \/ stats.pc # "scan" /\ clear_caches
  \/ \E group \in Groups : StatsCall(group)
  \/ StatsPage

SpecStats == Init /\ [][NextStats]_vars

(***************************************************************************)
(* Properties of the server object.  Every operation leaves its own name   *)
(* in last.op, so a step that ends with last.op = x was taken by x.        *)
(***************************************************************************)
CacheOf(k) ==
  CASE k = "groups" -> _groups_cache
    [] k = "states" -> _states_cache
    [] k = "priorities" -> _priorities_cache

AccessorOf(k) ==
  CASE k = "groups" -> "_get_cached_groups"
    [] k = "states" -> "_get_cached_states"
    [] k = "priorities" -> "_get_cached_priorities"

C13_HitStep ==
  \A k \in ReferenceLists :
    (hasattr(CacheOf(k)) /\ last'.op = AccessorOf(k)) =>
      /\ last'.outcome = "ok"
      /\ last'.requests = 0
      /\ last'.ret = CacheOf(k).v
      /\ CacheOf(k)' = CacheOf(k)
      /\ queried'[k] = queried[k]

\* a cache is filled only by an accessor call that found it absent and sent
\* exactly one request; a call whose fetch fails leaves it absent
C13_FillStep ==
  \A k \in ReferenceLists :
    /\ (~hasattr(CacheOf(k)) /\ hasattr(CacheOf(k)')) =>
         /\ last'.outcome = "ok" /\ last'.requests = 1
         /\ last'.op = AccessorOf(k) => last'.ret = CacheOf(k)'.v
    /\ (~hasattr(CacheOf(k)) /\ last'.op = AccessorOf(k) /\ last'.outcome # "ok") =>
         ~hasattr(CacheOf(k)')

NoCacheLeft ==
  /\ _groups_cache = Absent /\ _states_cache = Absent /\ _priorities_cache = Absent
  /\ _state_type_mapping = Absent

\* C14 as stated, the part about the call after clear_caches: the next
\* accessor call for each list queries the backend again exactly once
C14_NextCallQueriesOnce ==
  [][\A k \in ReferenceLists :
       (last.op = "clear_caches" /\ last'.op = AccessorOf(k)) => last'.requests = 1]_vars

\* clear_caches never fails and leaves none of the four attributes,
\* whatever it found; called again right away it finds nothing to delete
C14_ClearStep ==
  last'.op = "clear_caches" =>
    /\ last'.outcome = "ok"
    /\ NoCacheLeft'
    /\ last'.deleted = Populated
    /\ \A k \in ReferenceLists : queried'[k] = 0
    /\ last.op = "clear_caches" => last'.deleted = {}

\* the first accessor call for a list after clear_caches sends exactly one
\* request when a client is installed, and raises RuntimeError without a
\* request when none is
C14_RefetchStep ==
  \A k \in ReferenceLists :
    (queried[k] = 0 /\ ~hasattr(CacheOf(k)) /\ last'.op = AccessorOf(k)) =>
      IF client # "None"
      THEN last'.requests = 1 /\ queried'[k] = 1
      ELSE last'.outcome = "RuntimeError" /\ last'.requests = 0 /\ queried'[k] = 0

\* C14: clear_caches removes the three cached lists and the state-type
\* mapping whatever subset is populated and never fails; after it the next
\* accessor call for each list queries the backend exactly once when a
\* client is installed and raises RuntimeError without a query when none
\* is; a second clear_caches in a row changes nothing
C14_ClearThenRefetch ==
  /\ [](last.op = "clear_caches" => (NoCacheLeft /\ \A k \in ReferenceLists : queried[k] = 0))
  /\ [][C14_ClearStep /\ C14_RefetchStep]_vars

\* clear_caches has just removed all four attributes
C14_Witness ==
  /\ last.op = "clear_caches"
  /\ last.deleted = {"_groups_cache", "_states_cache", "_priorities_cache", "_state_type_mapping"}
  /\ NoCacheLeft
  /\ client # "None"


ListTools == {"zammad_list_groups", "zammad_list_ticket_states", "zammad_list_ticket_priorities"}

\* tools that begin with client = self.get_client()
ClientTools == {"zammad_create_ticket"}

CacheOfTool(t) ==
  CASE t = "zammad_list_groups" -> _groups_cache
    [] t = "zammad_list_ticket_states" -> _states_cache
    [] t = "zammad_list_ticket_priorities" -> _priorities_cache

\* no operation changes the client except the lifespan, which leaves its own
\* name in last.op: after any other operation, client is what that operation saw
GetClientContract ==
  last.op = "get_client" =>
    IF client = "None"
    THEN last.outcome = "RuntimeError"
    ELSE last.outcome = "ok" /\ last.ret = client

\* C17 as stated: get_client returns the installed client or raises
\* RuntimeError when none is installed; therefore a tool invoked while no
\* client is installed fails with that error before any backend request
C17_NoClientToolFails ==
  /\ GetClientContract
  /\ (client = "None" /\ last.op \in ListTools \cup ClientTools) =>
       (last.outcome = "RuntimeError" /\ last.requests = 0)

\* C17: get_client returns the installed client or raises RuntimeError when
\* none is installed; while no client is installed no operation sends a
\* backend request, a tool that begins with get_client fails with that
\* error, and a list tool fails with it exactly when its cache is absent
\* (it answers from a cache that is present without asking for the client)
C17_NoClientNoRequest ==
  /\ GetClientContract
  /\ client = "None" =>
       /\ last.requests = 0
       /\ last.op \in ClientTools => last.outcome = "RuntimeError"
       /\ last.op \in ListTools =>
            IF hasattr(CacheOfTool(last.op))
            THEN last.outcome = "ok"
            ELSE last.outcome = "RuntimeError"
       /\ last.op \in {AccessorOf(k) : k \in ReferenceLists} \cup {"_get_state_type_mapping"} =>
            last.outcome \in {"ok", "RuntimeError"}

\* a tool called after shutdown fails in get_client
C17_Witness ==
  /\ client = "None"
  /\ lifespan_pc = "exited"
  /\ last = Raised("zammad_create_ticket", "RuntimeError", 0)

Exited == lifespan_pc \in {"exited", "aborted"}

\* C18: the lifespan has awaited initialize exactly once when it yields to
\* request handling, and once it has exited, normally or by an exception
\* raised while serving, the client is None and get_client raises
\* RuntimeError
C18_Lifespan ==
  /\ lifespan_pc = "new" => initialize_calls = 0
  /\ lifespan_pc = "serving" => (initialize_calls = 1 /\ client # "None")
  /\ Exited => (initialize_calls = 1 /\ client = "None")
  /\ (Exited /\ last.op = "get_client") => last = Raised("get_client", "RuntimeError", 0)

\* get_client called after an exception ended the serving phase
C18_Witness ==
  /\ lifespan_pc = "aborted"
  /\ initialize_calls = 1
  /\ last = Raised("get_client", "RuntimeError", 0)


(***************************************************************************)
(* Properties of the ticket statistics                                     *)
(***************************************************************************)
StatsStarted == stats.pc \in {"scan", "done"}

StatsReturned ==
  stats.pc = "done" /\ last.op = "zammad_get_ticket_stats" /\ last.outcome = "ok"

RECURSIVE SumLen(_)
SumLen(pages) == IF pages = <<>> THEN 0 ELSE Len(Head(pages)) + SumLen(Tail(pages))

\* the page requests so far are for pages 1, 2, 3, ... in this order, each
\* with per_page = 100 and the caller's group
PagesInOrder ==
  \A n \in 1..Len(stats.requests) :
    stats.requests[n] = [group |-> stats.group, page |-> n, per_page |-> 100]

\* every page counted was not empty, and the tool has returned after the
\* first empty page with the sum of the sizes of the pages before it
StopsAtEmptyPage ==
  /\ \A n \in 1..Len(stats.received) : stats.received[n] # <<>>
  /\ StatsReturned =>
       /\ Len(stats.requests) = Len(stats.received) + 1
       /\ stats.total_count = SumLen(stats.received)
       /\ last.ret.total_count = SumLen(stats.received)

Scanned ==
  UNION {{<<n, k>> : k \in 1..Len(stats.received[n])} : n \in 1..Len(stats.received)}

TicketAt(nk) == stats.received[nk[1]][nk[2]]

\* the state type of a scanned ticket, 0 when its state has no name or the
\* name is not in the mapping (while the statistics are the last operation
\* the mapping is the one the scan has used)
TypeOf(ticket) == MappingGet(_state_type_mapping.v, _extract_state_name(ticket))

Unmapped(ticket) == _extract_state_name(ticket) \notin DOMAIN _state_type_mapping.v

EscalationSet(ticket) ==
  \E key \in {"first_response_escalation_at", "close_escalation_at", "update_escalation_at"} :
    HasKey(ticket, key) /\ Get(ticket, key) # JNull

CountsAgree ==
  /\ stats.total_count = Cardinality(Scanned)
  /\ stats.open_count = Cardinality({nk \in Scanned : TypeOf(TicketAt(nk)) \in {1, 2}})
  /\ stats.closed_count = Cardinality({nk \in Scanned : TypeOf(TicketAt(nk)) = 3})
  /\ stats.pending_count = Cardinality({nk \in Scanned : TypeOf(TicketAt(nk)) \in {4, 5}})
  /\ stats.escalated_count = Cardinality({nk \in Scanned : EscalationSet(TicketAt(nk))})
  /\ stats.open_count + stats.closed_count + stats.pending_count <= stats.total_count
  /\ stats.escalated_count <= stats.total_count

StatsInView ==
  /\ StatsStarted
  /\ last.op = "zammad_get_ticket_stats"
  /\ stats.received # <<>>
  /\ hasattr(_state_type_mapping)

\* C16 as stated: every scanned ticket is open (type 1 or 2), closed (type
\* 3), pending (type 4 or 5) or in none of them, which is when its state
\* name is missing or not in the mapping; it is escalated iff one of its
\* three escalation timestamps is set; the counts are the numbers of such
\* tickets
C16_NoneMeansUnmapped ==
  StatsInView =>
    /\ CountsAgree
    /\ \A nk \in Scanned :
         TypeOf(TicketAt(nk)) \in {1, 2, 3, 4, 5} \/ Unmapped(TicketAt(nk))

\* C16: every scanned ticket is counted in exactly one of open (type 1 or
\* 2), closed (type 3), pending (type 4 or 5) or none of them (state name
\* missing, not in the mapping, or mapped to any other type), and in
\* escalated iff one of its three escalation timestamps is set; hence
\* open + closed + pending <= total and escalated <= total
C16_Categories ==
  /\ StatsInView => CountsAgree
  /\ StatsReturned =>
       /\ last.ret = _build_stats_result(stats)
       /\ last.ret.open_count + last.ret.closed_count + last.ret.pending_count
            <= last.ret.total_count
       /\ last.ret.escalated_count <= last.ret.total_count

\* a scan over the page with a closed, a pending and an escalated open
\* ticket and the page of tickets that fall in no category
C16_Witness ==
  /\ StatsReturned
  /\ StatsInView
  /\ last.ret = [total_count |-> 7, open_count |-> 1, closed_count |-> 1,
                 pending_count |-> 1, escalated_count |-> 3]
  /\ \E nk \in Scanned : TypeOf(TicketAt(nk)) = 6
  /\ \E nk \in Scanned : Unmapped(TicketAt(nk))


(***************************************************************************)
(* Part 5.  The transport configuration (config.py) and the entry point    *)
(* main() of __main__.py.  None, strings and integers are the values of    *)
(* Part 1 (JNull, JStr, JInt); an environment variable is Absent or        *)
(* Present(string).                                                        *)
(***************************************************************************)
MaxValidations == 2

MIN_PORT == 1
MAX_PORT == 65535

RaisesValueError(message) == [raises |-> TRUE, error |-> "ValueError", message |-> message]

\* the members of TransportType
TransportTypes == {"stdio", "http"}

\* the dataclass TransportConfig
TransportConfig(transport, host, port) ==
  [transport |-> transport, host |-> host, port |-> port]

UpperLetters == "ABCDEFGHIJKLMNOPQRSTUVWXYZ"
LowerLetters == "abcdefghijklmnopqrstuvwxyz"

LowerCh(c) ==
  IF \E i \in 1..Len(UpperLetters) : Ch(UpperLetters, i) = c
  THEN Ch(LowerLetters, CHOOSE i \in 1..Len(UpperLetters) : Ch(UpperLetters, i) = c)
  ELSE c

\* str.lower()
RECURSIVE lower(_)
lower(s) == IF s = "" THEN "" ELSE LowerCh(Ch(s, 1)) \o lower(SubSeq(s, 2, Len(s)))

\* int(port_str): an optional sign and decimal digits; the surrounding
\* white space and the underscores int() also accepts are outside the
\* modelled alphabet
int(s) ==
  LET from == IF Ch(s, 1) \in {"-", "+"} THEN 2 ELSE 1
      e == DigitsEnd(s, from)
  IN  IF e > from /\ e = Len(s) + 1
      THEN Returns(IF Ch(s, 1) = "-" THEN 0 - DigitsVal(s, from, e, 0)
                                     ELSE DigitsVal(s, from, e, 0))
      ELSE RaisesValueError("invalid literal for int()")

\* os.getenv(name, default) and os.getenv(name)
getenv_default(e, name, default) == IF e[name].has THEN e[name].v ELSE default
getenv(e, name) == IF e[name].has THEN JStr(e[name].v) ELSE JNull

\* TransportConfig.from_env
from_env(e) ==
  LET transport_str == lower(getenv_default(e, "MCP_TRANSPORT", "stdio"))
      host == getenv(e, "MCP_HOST")
      port_str == getenv(e, "MCP_PORT")
  IN  IF transport_str \notin TransportTypes
      THEN RaisesValueError("Invalid transport type")
      ELSE IF port_str # JNull /\ port_str.s # ""
           THEN IF int(port_str.s).raises
                THEN RaisesValueError("MCP_PORT must be a valid integer")
                ELSE Returns(TransportConfig(transport_str, host,
                                             JInt(int(port_str.s).data)))
           ELSE Returns(TransportConfig(transport_str, host, JNull))

\* mutant: the range check of validate with the lower end excluded
validate_exclusive(self) ==
  IF self.transport = "http"
  THEN IF self.port = JNull
       THEN RaisesValueError("HTTP transport requires MCP_PORT")
       ELSE IF ~(MIN_PORT < self.port.i /\ self.port.i <= MAX_PORT)
            THEN RaisesValueError("Invalid port")
            ELSE Returns([self EXCEPT !.host = IF self.host = JNull
                                               THEN JStr("127.0.0.1") ELSE self.host])
  ELSE Returns(self)

\* TransportConfig.validate: what it raises, or the object as it leaves it
validate(self) ==
  IF self.transport = "http"
  THEN IF self.port = JNull
       THEN RaisesValueError("HTTP transport requires MCP_PORT")
       ELSE IF ~(MIN_PORT <= self.port.i /\ self.port.i <= MAX_PORT)
            THEN RaisesValueError("Invalid port")
            ELSE Returns([self EXCEPT !.host = IF self.host = JNull
                                               THEN JStr("127.0.0.1") ELSE self.host])
  ELSE Returns(self)

\* the environments a process is started in
Environments ==
  [MCP_TRANSPORT : {Absent, Present("stdio"), Present("http"), Present("HTTP"),
                    Present("invalid")},
   MCP_HOST : {Absent, Present("0.0.0.0")},
   MCP_PORT : {Absent, Present(""), Present("8000"), Present("0"), Present("1"),
               Present("65535"), Present("65536"), Present("-1"),
               Present("not_a_number")}]

\* the objects built with TransportConfig(...) directly
ConfigHosts == {JNull, JStr("0.0.0.0")}
ConfigPorts == {JNull, JInt(0 - 1), JInt(0), JInt(MIN_PORT), JInt(8000), JInt(MAX_PORT),
                JInt(MAX_PORT + 1)}

\* the keyword arguments main() passes to mcp.run
RunArgs(transport) ==
  IF transport = "http" THEN << <<"transport", "streamable-http">> >> ELSE <<>>

\* the end of a call of validate on config
Validated(r) ==
  /\ validated' = [n |-> validated.n + 1,
                   outcome |-> IF r.raises THEN "ValueError" ELSE "ok"]
  /\ config' = IF r.raises THEN config ELSE Present(r.data)

\* TransportConfig(transport=..., host=..., port=...)
NewConfig(transport, host, port) ==
  /\ main_pc = "idle"
  /\ config' = Present(TransportConfig(transport, host, port))
  /\ validated' = [n |-> 0, outcome |-> "none"]
  /\ UNCHANGED <<tvars, fvars, svars, stats, xvars, env, main_pc, run_calls>>

\* config.validate(), called on an object at hand
Validate ==
  /\ main_pc = "idle"
  /\ config.has
  /\ validated.n < MaxValidations
  /\ Validated(validate(config.v))
  /\ UNCHANGED <<tvars, fvars, svars, stats, xvars, env, main_pc, run_calls>>

\* main(), line 16: the process starts in environment e and reads it
MainFromEnv(e) ==
  /\ main_pc = "idle"
  /\ ~config.has
  /\ env' = e
  /\ IF from_env(e).raises
     THEN main_pc' = "raised" /\ config' = config
     ELSE main_pc' = "loaded" /\ config' = Present(from_env(e).data)
  /\ UNCHANGED <<tvars, fvars, svars, stats, xvars, validated, run_calls>>

\* mutant: main() going on after validate raised
MainValidate_unchecked ==
  /\ main_pc = "loaded"
  /\ Validated(validate(config.v))
  /\ main_pc' = "validated"
  /\ UNCHANGED <<tvars, fvars, svars, stats, xvars, env, run_calls>>

\* main(), line 17
MainValidate ==
  /\ main_pc = "loaded"
  /\ Validated(validate(config.v))
  /\ main_pc' = IF validate(config.v).raises THEN "raised" ELSE "validated"
  /\ UNCHANGED <<tvars, fvars, svars, stats, xvars, env, run_calls>>

\* main(), lines 21-24
MainRun ==
  /\ main_pc = "validated"
  /\ run_calls' = Append(run_calls, RunArgs(config.v.transport))
  /\ main_pc' = "ran"
  /\ UNCHANGED <<tvars, fvars, svars, stats, xvars, env, config, validated>>

NextMain ==
  \/ \E transport \in TransportTypes, host \in ConfigHosts, port \in ConfigPorts :
       NewConfig(transport, host, port)
  \/ Validate
  \/ \E e \in Environments : MainFromEnv(e)
  \/ MainValidate
  \/ MainRun

SpecMain == Init /\ [][NextMain]_vars

(***************************************************************************)
(* Properties of the transport configuration and of main().                *)
(***************************************************************************)
\* a step that is one call of validate
ValidateStep == validated'.n = validated.n + 1

PortRejected(c) ==
  c.port = JNull \/ c.port.i < 1 \/ c.port.i > 65535

\* C19: a call of validate on an http configuration raises ValueError, and
\* leaves the object alone, when the port is None or outside 1..65535, and
\* otherwise keeps transport and port and sets the host to "127.0.0.1" only
\* if it was None; on a stdio configuration it never raises and changes no
\* field; a second call ends as the first and changes nothing.
C19_Validate ==
  [][ValidateStep =>
       LET c == config.v
       IN  /\ IF c.transport = "http" /\ PortRejected(c)
              THEN validated'.outcome = "ValueError" /\ config' = config
              ELSE /\ validated'.outcome = "ok"
                   /\ config'.v.transport = c.transport
                   /\ config'.v.port = c.port
                   /\ config'.v.host = IF c.transport = "http" /\ c.host = JNull
                                       THEN JStr("127.0.0.1") ELSE c.host
           /\ c.transport = "stdio" => validated'.outcome = "ok" /\ config' = config
           /\ validated.n >= 1 =>
                validated'.outcome = validated.outcome /\ config' = config]_vars

\* validate was called twice on an http configuration built without a host
\* and with the lowest port: it stands with the default host
C19_Witness ==
  /\ validated = [n |-> 2, outcome |-> "ok"]
  /\ config = Present(TransportConfig("http", JStr("127.0.0.1"), JInt(1)))

\* from_env or validate raises in the environment main() was started in
MainRaises ==
  \/ from_env(env).raises
  \/ validate(from_env(env).data).raises

\* C20: mcp.run is not called before main() has loaded and validated the
\* configuration, and never if from_env or validate raised; otherwise it is
\* called once, with transport="streamable-http" if the configured
\* transport is http and with no argument if it is stdio, which it is when
\* MCP_TRANSPORT is unset.
C20_Main ==
  /\ main_pc # "ran" => run_calls = <<>>
  /\ main_pc = "raised" => MainRaises
  /\ main_pc = "ran" =>
       /\ ~MainRaises
       /\ validated = [n |-> 1, outcome |-> "ok"]
       /\ Len(run_calls) = 1
       /\ config.v.transport = "http" =>
            run_calls[1] = << <<"transport", "streamable-http">> >>
       /\ config.v.transport = "stdio" => run_calls[1] = <<>>
       /\ ~env.MCP_TRANSPORT.has => config.v.transport = "stdio"
       /\ env.MCP_TRANSPORT = Present("HTTP") => config.v.transport = "http"

\* main() ran the server over http from MCP_TRANSPORT=HTTP, MCP_PORT=65535
C20_Witness ==
  /\ main_pc = "ran"
  /\ env = [MCP_TRANSPORT |-> Present("HTTP"), MCP_HOST |-> Absent,
            MCP_PORT |-> Present("65535")]
  /\ config = Present(TransportConfig("http", JStr("127.0.0.1"), JInt(65535)))
  /\ run_calls = << << <<"transport", "streamable-http">> >> >>

\* main() ended by the ValueError of validate: http without a port
C20_WitnessRaised ==
  /\ main_pc = "raised"
  /\ env.MCP_TRANSPORT = Present("http") /\ ~env.MCP_PORT.has
  /\ validated = [n |-> 1, outcome |-> "ValueError"]
  /\ run_calls = <<>>


(***************************************************************************)
(* Part 6.  The search tools hand the envelope of the formatter to         *)
(* truncate_response (zammad_search_tickets, lines 616-620): the truncator *)
(* of Part 1 applied to the envelopes of Part 2.                           *)
(***************************************************************************)
\* the envelopes of _format_tickets_json for the pages of the model
TicketEnvelopes ==
  {_format_tickets_json(recs, total, page, per_page) :
     recs \in Pages, total \in {JNull, JInt(7)}, page \in {2}, per_page \in {MaxRecs}}

\* an envelope whose "_meta" already holds keys when it reaches the
\* truncator, in either density
WithMetaKeys(doc, style) ==
  Dumps(Put(Loads(doc).val, "_meta",
            JObj(<< <<"source", JStr("api")>>, <<"truncated", JBool(FALSE)>> >>)),
        style, 0)

EnvelopeDocs ==
  TicketEnvelopes \cup {WithMetaKeys(doc, style) : doc \in TicketEnvelopes,
                                                    style \in {"pretty", "compact"}}

\* return truncate_response(result), with the limit the server is set to
TruncateEnvelope(doc, lim) == Call(doc, lim)

NextEnvelope ==
  \/ \E doc \in EnvelopeDocs : \E lim \in LimitsFor(doc) : TruncateEnvelope(doc, lim)
  \/ Probe
  \/ SearchDone
  \/ Metadata
  \/ Pop
  \/ Return
  \/ Reset

SpecEnvelope == Init /\ [][NextEnvelope]_vars

\* the keys of a JSON object
Keys(o) == {o.o[n][1] : n \in 1..Len(o.o)}

TruncationKeys == {"truncated", "original_size", "limit", "note"}

\* the "_meta" of an object, {} if it has none
MetaOf(o) == IF HasKey(o, "_meta") THEN Get(o, "_meta") ELSE JObj(<<>>)

(* C24: JSON truncation changes only "items" and "_meta": every other
   top-level key of the envelope (total, count, page, per_page, offset,
   has_more, next_page, next_offset) keeps its value and no key is added, so
   "count" still is the number of records before truncation; under "_meta"
   the keys other than truncated, original_size, limit and note keep their
   values, and only those four are added. *)
C24_OnlyItemsAndMeta ==
  Done /\ path = "json" =>
    /\ Keys(Out.val) = Keys(In.val) \cup {"_meta"}
    /\ \A k \in Keys(In.val) \ {"items", "_meta"} : Get(Out.val, k) = Get(In.val, k)
    /\ HasKey(In.val, "count") /\ HasItemsList(In.val) =>
         /\ Get(Out.val, "count") = JInt(ItemCount(In.val))
         /\ ItemCount(Out.val) <= ItemCount(In.val)
    /\ Keys(MetaOf(Out.val)) = Keys(MetaOf(In.val)) \cup TruncationKeys
    /\ \A k \in Keys(MetaOf(In.val)) \ TruncationKeys :
         Get(MetaOf(Out.val), k) = Get(MetaOf(In.val), k)

\* a truncated envelope of the formatter: "count" exceeds the number of items
\* left, the pagination keys stand as they were, and the key that was under
\* "_meta" is still there
C24_Witness ==
  /\ Done /\ path = "json"
  /\ HasKey(MetaOf(In.val), "source")
  /\ Get(Out.val, "count") = JInt(MaxRecs) /\ ItemCount(Out.val) < MaxRecs
  /\ Get(Out.val, "has_more") = JBool(TRUE) /\ Get(Out.val, "next_page") = JInt(3)
  /\ Get(Out.val, "total") = JInt(7)
  /\ Get(MetaOf(Out.val), "source") = JStr("api")
  /\ Get(MetaOf(Out.val), "truncated") = JBool(TRUE)


(***************************************************************************)
(* Further properties of the server object.                                *)
(***************************************************************************)
ToolOf(k) ==
  CASE k = "groups" -> "zammad_list_groups"
    [] k = "states" -> "zammad_list_ticket_states"
    [] k = "priorities" -> "zammad_list_ticket_priorities"

\* the operations that are one call of the accessor of list k
CallersOf(k) == {AccessorOf(k), ToolOf(k)}

FetchErrors == {"RuntimeError", "BackendError", "ValidationError"}

\* a call of the accessor of list k fails: the error reaches the caller,
\* nothing is returned, and no cache attribute changes: the cache of k was
\* absent and stays so, whether there was no client (no request), the
\* backend raised or a record did not validate (one request)
C28_FailStep ==
  \A k \in ReferenceLists :
    (last'.op \in CallersOf(k) /\ last'.outcome # "ok") =>
      /\ last'.outcome \in FetchErrors
      /\ last'.ret = <<>>
      /\ ~hasattr(CacheOf(k)) /\ ~hasattr(CacheOf(k)')
      /\ cvars' = cvars
      /\ last'.outcome = "RuntimeError" <=> client = "None"
      /\ last'.requests = IF client = "None" THEN 0 ELSE 1

\* C28 as stated: a failed fetch (no client, the backend raises, a record
\* fails validation) propagates the error and leaves that cache absent and
\* the others unchanged, so that the next call to the accessor fetches
\* from the backend again
C28_NextCallFetches ==
  [][/\ C28_FailStep
     /\ \A k \in ReferenceLists :
          (last.op \in CallersOf(k) /\ last.outcome # "ok" /\ last'.op \in CallersOf(k)) =>
            last'.requests = 1]_vars

\* C28: a failed fetch propagates the error and leaves that cache absent
\* and the others unchanged, no partial list is stored, and the next call to
\* the accessor does not answer from a cache: with a client installed it
\* asks the backend again, with none it raises RuntimeError again without a
\* request
C28_FailedFetchRetried ==
  [][/\ C28_FailStep
     /\ \A k \in ReferenceLists :
          (last.op \in CallersOf(k) /\ last.outcome # "ok" /\ last'.op \in CallersOf(k)) =>
            IF client = "None"
            THEN last'.outcome = "RuntimeError" /\ last'.requests = 0
            ELSE last'.requests = 1 /\ queried'[k] = Asked(k)[k]]_vars

\* the groups were fetched again, and stored, after a fetch that failed
C28_Witness ==
  /\ queried["groups"] = 2
  /\ hasattr(_groups_cache) /\ _groups_cache.v # <<>>
  /\ last = Returned("zammad_list_groups", 1, last.ret)

\* C29: a client is installed, and get_client succeeds, only after
\* initialize has completed with the connection test passed; after an
\* initialize that failed, in ZammadClient() or in get_current_user(), no
\* client is installed and get_client raises RuntimeError
C29_ClientOnlyAfterInitialize ==
  /\ client # "None" => lifespan_pc = "serving"
  /\ lifespan_pc = "failed" =>
       /\ client = "None"
       /\ last.op = "get_client" => last.outcome = "RuntimeError"

(***************************************************************************)
(* The state-type mapping and the states it is derived from, under the     *)
(* statistics calls, the accessors and clear_caches.                       *)
(***************************************************************************)
NextCaches ==
  \/ NextStats
  \/ stats.pc # "scan" /\ GetCachedStates

SpecCaches == Init /\ [][NextCaches]_vars

\* a step of the page scan that counted a page
CountedPage == stats.pc = "scan" /\ Len(stats'.received) = Len(stats.received) + 1

(* C27: the state-type mapping, when present, is the name -> state_type_id
   mapping of the states cache present at that moment; it is never present
   while the states cache is absent; clear_caches leaves neither, and a page
   of the statistics is counted with the mapping of the states cached when
   it is counted. *)
C27_MappingFollowsStates ==
  /\ [](hasattr(_state_type_mapping) =>
          /\ hasattr(_states_cache)
          /\ _state_type_mapping.v = StateTypeMapping(_states_cache.v))
  /\ [][last'.op = "clear_caches" =>
          ~hasattr(_state_type_mapping') /\ ~hasattr(_states_cache')]_vars
  /\ [][CountedPage =>
          /\ hasattr(_states_cache') /\ hasattr(_state_type_mapping')
          /\ LET batch == _process_ticket_batch(StateTypeMapping(_states_cache'.v),
                                                stats'.received[Len(stats'.received)])
             IN  /\ stats'.open_count = stats.open_count + batch[2]
                 /\ stats'.closed_count = stats.closed_count + batch[3]
                 /\ stats'.pending_count = stats.pending_count + batch[4]]_vars

\* an earlier statistics call counted open tickets; since then the caches
\* were cleared and the mapping was computed anew, from an empty list of
\* states
C27_Witness ==
  /\ stats.pc = "done" /\ stats.open_count > 0
  /\ last = Returned("_get_state_type_mapping", 1, last.ret)
  /\ _states_cache = Present(<<>>)
  /\ hasattr(_state_type_mapping) /\ DOMAIN _state_type_mapping.v = {}


(***************************************************************************)
(* The page scan against a backend that never runs out of tickets: every   *)
(* page asked for comes back with a ticket, so that only the cap of        *)
(* MAX_PAGES_FOR_TICKET_SCAN ends the scan.                                *)
(***************************************************************************)
\* the state of the ticket on page p
EndlessState(p) ==
  CASE p % 3 = 1 -> "open"
    [] p % 3 = 2 -> "closed"
    [] OTHER -> "pending reminder"

\* page p of the endless backend
EndlessPage(p) == <<Ticket(p, StateStr(EndlessState(p)))>>

\* an iteration against the endless backend
StatsPageEndless ==
  /\ stats.pc = "scan"
  /\ UNCHANGED <<tvars, fvars, mvars, xvars, client, _groups_cache, _priorities_cache,
                 lifespan_pc, initialize_calls>>
  /\ ScanPage(Returns(EndlessPage(stats.page)))

\* one statistics call on a connected server whose state-type mapping is
\* cached or not
NextScanCap ==
  \/ stats.pc = "idle" /\ LifespanStart("connected")
  \/ stats.pc = "idle" /\ GetStateTypeMapping
  \/ stats.pc = "idle" /\ StatsCall("None")
  \/ StatsPageEndless

SpecScanCap == Init /\ [][NextScanCap]_vars

\* what holds of a scan, running or returned, against the endless backend:
\* the pages are asked for in order, page 1001 never, every page received
\* is counted, and the pages processed (page - 1, line 1162) are the
\* non-empty pages received
CappedScan ==
  stats.pc \in {"scan", "done"} =>
    /\ Len(stats.requests) <= MAX_PAGES_FOR_TICKET_SCAN
    /\ \A n \in 1..Len(stats.requests) : stats.requests[n].page = n
    /\ stats.pc = "scan" => stats.page <= MAX_PAGES_FOR_TICKET_SCAN
    /\ stats.page - 1 = Len(stats.received)
    /\ stats.total_count = Len(stats.received)
    /\ \A n \in 1..Len(stats.received) : stats.received[n] = EndlessPage(n)

\* the scan has returned because of the cap
Capped == stats.pc = "done" /\ last.outcome = "ok"

\* the counts of the first n pages of the endless backend under the mapping
\* of the states of StatesData
EndlessCount(n, state) == Cardinality({p \in 1..n : EndlessState(p) = state})

CappedResult ==
  Capped =>
    /\ Len(stats.requests) = MAX_PAGES_FOR_TICKET_SCAN
    /\ Len(stats.received) = MAX_PAGES_FOR_TICKET_SCAN
    /\ stats.page = MAX_PAGES_FOR_TICKET_SCAN + 1
    /\ last.ret.total_count = MAX_PAGES_FOR_TICKET_SCAN
    /\ _state_type_mapping.v # <<>> =>
         /\ last.ret.open_count = EndlessCount(MAX_PAGES_FOR_TICKET_SCAN, "open")
         /\ last.ret.closed_count = EndlessCount(MAX_PAGES_FOR_TICKET_SCAN, "closed")
         /\ last.ret.pending_count =
              EndlessCount(MAX_PAGES_FOR_TICKET_SCAN, "pending reminder")

\* C26 as stated: the scan makes at most MAX_PAGES_FOR_TICKET_SCAN = 1000
\* backend requests (pages 1..1000, never page 1001) and then returns the
\* counts of exactly those pages, the pages processed being the non-empty
\* pages received
C26_AtMostCapRequests ==
  /\ CappedScan
  /\ CappedResult
  /\ stats.pc \in {"scan", "done"} => stats.backend_requests <= MAX_PAGES_FOR_TICKET_SCAN
  /\ last.op = "zammad_get_ticket_stats" => last.requests <= MAX_PAGES_FOR_TICKET_SCAN

\* the backend requests of a scan are its page requests and at most one
\* request for the ticket states
PagesAndStates ==
  /\ stats.pc \in {"scan", "done"} =>
       /\ stats.backend_requests \in {Len(stats.requests), Len(stats.requests) + 1}
       /\ stats.backend_requests = Len(stats.requests) + 1 => queried["states"] >= 1
  /\ Capped => last.requests = stats.backend_requests

\* every iteration that does not return moves to the next page, which with
\* page <= MAX_PAGES_FOR_TICKET_SCAN bounds the iterations of a scan
ScanAdvances ==
  stats.pc = "scan" /\ stats'.pc = "scan" => stats'.page = stats.page + 1

\* C26: the scan always terminates: it makes at most
\* MAX_PAGES_FOR_TICKET_SCAN = 1000 page
\* requests (pages 1..1000, never page 1001), and besides them one request
\* for the ticket states if the state-type mapping is not cached when the
\* first page is counted; then it returns the counts of exactly those
\* pages, the pages processed being the non-empty pages received
C26_CappedScan ==
  /\ [](CappedScan /\ CappedResult /\ PagesAndStates)
  /\ [][ScanAdvances]_vars

\* the scan was ended by the cap, having fetched the states on the way
C26_Witness ==
  /\ Capped
  /\ stats.page = MAX_PAGES_FOR_TICKET_SCAN + 1
  /\ stats.backend_requests = MAX_PAGES_FOR_TICKET_SCAN + 1
  /\ last.ret.total_count = MAX_PAGES_FOR_TICKET_SCAN


(***************************************************************************)
(* zammad_download_attachment.  The attachment is a sequence of bytes, the *)
(* base64 text a sequence of characters.                                   *)
(***************************************************************************)
\* the longest attachment of the backend
MaxBytes == 3

\* the values of the bytes of an attachment
ByteValues == {0, 77, 255}

Attachments == UNION {[1..n -> ByteValues] : n \in 0..MaxBytes}

\* the default of max_bytes in DownloadAttachmentParams
DEFAULT_MAX_BYTES == 10000000

\* the alphabet of base64.b64encode
B64Alphabet ==
  <<"A", "B", "C", "D", "E", "F", "G", "H", "I", "J", "K", "L", "M",
    "N", "O", "P", "Q", "R", "S", "T", "U", "V", "W", "X", "Y", "Z",
    "a", "b", "c", "d", "e", "f", "g", "h", "i", "j", "k", "l", "m",
    "n", "o", "p", "q", "r", "s", "t", "u", "v", "w", "x", "y", "z",
    "0", "1", "2", "3", "4", "5", "6", "7", "8", "9", "+", "/">>

B64Pad == "="

\* the character of a 6-bit value
B64Char(v) == B64Alphabet[v + 1]

\* the four characters of a group of one, two or three bytes
B64Group(g) ==
  LET b1 == g[1]
      b2 == IF Len(g) >= 2 THEN g[2] ELSE 0
      b3 == IF Len(g) >= 3 THEN g[3] ELSE 0
      n == b1 * 65536 + b2 * 256 + b3
  IN <<B64Char(n \div 262144),
       B64Char((n \div 4096) % 64),
       IF Len(g) >= 2 THEN B64Char((n \div 64) % 64) ELSE B64Pad,
       IF Len(g) >= 3 THEN B64Char(n % 64) ELSE B64Pad>>

\* base64.b64encode(attachment_data).decode("utf-8"): the characters are
\* ASCII, so that decoding them as UTF-8 leaves them as they are
RECURSIVE b64encode(_)
b64encode(data) ==
  IF data = <<>> THEN <<>>
  ELSE IF Len(data) <= 3 THEN B64Group(data)
  ELSE B64Group(SubSeq(data, 1, 3)) \o b64encode(SubSeq(data, 4, Len(data)))

\* the values of max_bytes: left out, None, or an integer
Omitted == [kind |-> "omitted"]
Unlimited == [kind |-> "None"]
Bytes(n) == [kind |-> "int", n |-> n]

\* DownloadAttachmentParams: the three ids are > 0, max_bytes is None or
\* >= 1 and 10_000_000 when left out
DownloadAttachmentParams(ticket_id, article_id, attachment_id, max_bytes) ==
  LET given == IF max_bytes = Omitted THEN Bytes(DEFAULT_MAX_BYTES) ELSE max_bytes
  IN IF /\ ticket_id > 0
        /\ article_id > 0
        /\ attachment_id > 0
        /\ (given = Unlimited \/ given.n >= 1)
     THEN Returns([ticket_id |-> ticket_id, article_id |-> article_id,
                   attachment_id |-> attachment_id, max_bytes |-> given])
     ELSE Raises

\* AttachmentDownloadError(ticket_id, article_id, attachment_id, original_error)
AttachmentDownloadError(params, original_error) ==
  [outcome |-> "AttachmentDownloadError",
   error |-> [ticket_id |-> params.ticket_id, article_id |-> params.article_id,
              attachment_id |-> params.attachment_id, original_error |-> original_error],
   ret |-> <<>>]

\* the exceptions of client.download_attachment that the tool catches
CaughtErrors == {"RequestException", "ValueError", "AttachmentDownloadError"}

\* an exception of client.download_attachment that the tool does not catch
OtherErrors == {"KeyError"}

RaisesError(kind) == [raises |-> TRUE, error |-> kind]

\* what client.download_attachment may do when it is called, and nothing
\* when it is not
DownloadAnswers(sent) ==
  IF sent
  THEN {Returns(d) : d \in Attachments} \cup {RaisesError(k) : k \in CaughtErrors \cup OtherErrors}
  ELSE {RaisesError("not called")}

\* the guard with the comparison written >=
TooLarge_ge(max_bytes, attachment_data) ==
  max_bytes # Unlimited /\ Len(attachment_data) >= max_bytes.n

\* the guard against very large attachments
TooLarge(max_bytes, attachment_data) ==
  max_bytes # Unlimited /\ Len(attachment_data) > max_bytes.n

NoError == [ticket_id |-> 0, article_id |-> 0, attachment_id |-> 0, original_error |-> "None"]

\* the body of the tool, given the validated parameters and what the
\* backend does
zammad_download_attachment(params, answer) ==
  IF get_client.raises
  THEN [outcome |-> "RuntimeError", error |-> NoError, ret |-> <<>>]
  ELSE IF answer.raises
  THEN IF answer.error \in CaughtErrors
       THEN AttachmentDownloadError(params, answer.error)
       ELSE [outcome |-> answer.error, error |-> NoError, ret |-> <<>>]
  ELSE IF TooLarge(params.max_bytes, answer.data)
  THEN AttachmentDownloadError(params, "ValueError")
  ELSE [outcome |-> "ok", error |-> NoError, ret |-> b64encode(answer.data)]

TicketIds == {0, 1}
ArticleIds == {0, 2}
AttachmentIds == {0, 3}
MaxBytesArgs == {Omitted, Unlimited} \cup {Bytes(n) : n \in 0..MaxBytes}

\* a call of the tool: the parameters are validated before the body runs
Download(ticket_id, article_id, attachment_id, max_bytes) ==
  /\ attachment.pc = "idle"
  /\ UNCHANGED <<tvars, fvars, svars, stats, mvars, walk>>
  /\ LET params == DownloadAttachmentParams(ticket_id, article_id, attachment_id, max_bytes)
         args == [ticket_id |-> ticket_id, article_id |-> article_id,
                  attachment_id |-> attachment_id, max_bytes |-> max_bytes]
         sent == ~params.raises /\ ~get_client.raises
     IN \E answer \in DownloadAnswers(sent) :
          attachment' =
            IF params.raises
            THEN [pc |-> "done", args |-> args, sent |-> sent, answer |-> answer,
                  outcome |-> "ValidationError", error |-> NoError, ret |-> <<>>]
            ELSE [pc |-> "done", args |-> args, sent |-> sent, answer |-> answer]
                   @@ zammad_download_attachment(params.data, answer)

\* the caller has the result
DownloadReturn ==
  /\ attachment.pc = "done"
  /\ attachment' = [pc |-> "idle"]
  /\ UNCHANGED <<tvars, fvars, svars, stats, mvars, walk>>

NextAttachment ==
  \/ \E outcome \in InitializeOutcomes : attachment.pc = "idle" /\ LifespanStart(outcome)
  \/ \E ticket_id \in TicketIds, article_id \in ArticleIds,
        attachment_id \in AttachmentIds, max_bytes \in MaxBytesArgs :
       Download(ticket_id, article_id, attachment_id, max_bytes)
  \/ DownloadReturn

SpecAttachment == Init /\ [][NextAttachment]_vars

\* the value of a base64 character
B64Value(c) == CHOOSE v \in 0..63 : B64Alphabet[v + 1] = c

\* the bytes that four base64 characters stand for
B64Bytes(q) ==
  LET v3 == IF q[3] = B64Pad THEN 0 ELSE B64Value(q[3])
      v4 == IF q[4] = B64Pad THEN 0 ELSE B64Value(q[4])
      n == B64Value(q[1]) * 262144 + B64Value(q[2]) * 4096 + v3 * 64 + v4
      all == <<n \div 65536, (n \div 256) % 256, n % 256>>
  IN IF q[3] = B64Pad THEN SubSeq(all, 1, 1)
     ELSE IF q[4] = B64Pad THEN SubSeq(all, 1, 2)
     ELSE all

RECURSIVE b64decode(_)
b64decode(text) ==
  IF text = <<>> THEN <<>>
  ELSE B64Bytes(SubSeq(text, 1, 4)) \o b64decode(SubSeq(text, 5, Len(text)))

\* text is the base64 encoding of data
IsBase64Of(text, data) ==
  /\ Len(text) = 4 * ((Len(data) + 2) \div 3)
  /\ \A n \in 1..Len(text) :
       \/ \E v \in 0..63 : text[n] = B64Alphabet[v + 1]
       \/ text[n] = B64Pad /\ n > Len(text) - 2 /\ (n < Len(text) => text[n + 1] = B64Pad)
  /\ b64decode(text) = data

\* the limit that a call's max_bytes argument stands for
LimitOf(max_bytes) == IF max_bytes = Omitted THEN Bytes(DEFAULT_MAX_BYTES) ELSE max_bytes

\* the attachment fits the limit of the call
WithinLimit(args, data) ==
  LimitOf(args.max_bytes) = Unlimited \/ Len(data) <= LimitOf(args.max_bytes).n

\* C21: zammad_download_attachment returns the base64 encoding of the
\* attachment only when max_bytes is None or the attachment size is
\* <= max_bytes, a size equal to max_bytes being accepted; when the size
\* exceeds max_bytes, or the download raises a request error, ValueError or
\* AttachmentDownloadError, it raises AttachmentDownloadError with the
\* ticket, article and attachment ids of the call and returns no content
C21_DownloadGuarded ==
  attachment.pc = "done" =>
    LET args == attachment.args
        answer == attachment.answer
    IN /\ attachment.outcome = "ok" <=>
            attachment.sent /\ ~answer.raises /\ WithinLimit(args, answer.data)
       /\ attachment.outcome = "ok" => IsBase64Of(attachment.ret, answer.data)
       /\ attachment.outcome # "ok" => attachment.ret = <<>>
       /\ attachment.sent /\ ~answer.raises /\ ~WithinLimit(args, answer.data) =>
            /\ attachment.outcome = "AttachmentDownloadError"
            /\ attachment.error.original_error = "ValueError"
       /\ attachment.sent /\ answer.raises /\ answer.error \in CaughtErrors =>
            /\ attachment.outcome = "AttachmentDownloadError"
            /\ attachment.error.original_error = answer.error
       /\ attachment.outcome = "AttachmentDownloadError" =>
            /\ attachment.error.ticket_id = args.ticket_id
            /\ attachment.error.article_id = args.article_id
            /\ attachment.error.attachment_id = args.attachment_id
            /\ args.ticket_id > 0 /\ args.article_id > 0 /\ args.attachment_id > 0

\* an attachment of exactly max_bytes bytes was returned as base64
C21_Witness ==
  /\ attachment.pc = "done"
  /\ attachment.outcome = "ok"
  /\ attachment.args.max_bytes = Bytes(2)
  /\ attachment.answer.data = <<77, 255>>
  /\ attachment.ret = <<"T", "f", "8", "=">>


(***************************************************************************)
(* A caller of zammad_search_tickets (JSON) that starts at page 1 and      *)
(* follows next_page while has_more is true, against a backend holding a   *)
(* fixed list of N tickets.                                                *)
(***************************************************************************)
\* the longest list of the backend and the largest page size of the caller
MaxWalk == 7
MaxPerPage == 3

\* the default of CHARACTER_LIMIT
CHARACTER_LIMIT == 25000

\* the list of the backend
Backlog(N) == [n \in 1..N |-> Record(n, RecordName(n))]

\* client.search_tickets(page, per_page): records (page-1)*per_page+1 ..
\* page*per_page of the list
ServedPage(N, page, per_page) ==
  SubSeq(Backlog(N), (page - 1) * per_page + 1, Min(page * per_page, N))

\* truncate_response of a content within the limit: the content itself
WithinCharacterLimit(text) == Len(text) <= CHARACTER_LIMIT

\* the tool, lines 594-620, for response_format = json and a content that
\* truncate_response leaves alone
zammad_search_tickets(N, page, per_page) ==
  IF get_client.raises THEN Err("RuntimeError", 0)
  ELSE Ok(1, _format_tickets_json(ServedPage(N, page, per_page), JNull, page, per_page))

WalkStart(N, per_page) ==
  /\ walk.pc = "idle"
  /\ walk' = [pc |-> "walking", N |-> N, per_page |-> per_page, page |-> 1,
              received |-> <<>>, pages |-> <<>>, requests |-> 0, outcome |-> "ok"]
  /\ UNCHANGED <<tvars, fvars, svars, stats, mvars, attachment>>

\* one request of the caller: it parses the response, keeps the items and
\* goes on to next_page if has_more is true
WalkStep ==
  /\ walk.pc = "walking"
  /\ UNCHANGED <<tvars, fvars, svars, stats, mvars, attachment>>
  /\ LET r == zammad_search_tickets(walk.N, walk.page, walk.per_page)
     IN IF r.outcome # "ok"
        THEN walk' = [walk EXCEPT !.pc = "done", !.outcome = r.outcome]
        ELSE LET doc == Loads(r.ret).val
                 items == Get(doc, "items").l
                 has_more == Get(doc, "has_more").b
                 seen == [page |-> walk.page, count |-> Len(items), has_more |-> has_more,
                          within |-> WithinCharacterLimit(r.ret)]
             IN walk' = [walk EXCEPT !.received = @ \o items,
                                     !.pages = Append(@, seen),
                                     !.requests = @ + r.requests,
                                     !.page = IF has_more THEN Get(doc, "next_page").i ELSE @,
                                     !.pc = IF has_more THEN "walking" ELSE "done"]

WalkReturn ==
  /\ walk.pc = "done"
  /\ walk' = [pc |-> "idle"]
  /\ UNCHANGED <<tvars, fvars, svars, stats, mvars, attachment>>

NextWalk ==
  \/ \E outcome \in InitializeOutcomes : walk.pc = "idle" /\ LifespanStart(outcome)
  \/ \E N \in 0..MaxWalk, per_page \in 1..MaxPerPage : WalkStart(N, per_page)
  \/ WalkStep
  \/ WalkReturn

SpecWalk == Init /\ [][NextWalk]_vars

\* the requests a walk over N records needs
WalkRequests(N, per_page) ==
  IF N % per_page # 0 THEN (N + per_page - 1) \div per_page ELSE N \div per_page + 1

=============================================================================
